---- MODULE Spec2Model ----
(***************************************************************************)
(* ChatPilot browser automation agent.                                     *)
(*                                                                         *)
(* The side panel controller (CometPanel.executeActions, the tabs.onUpdated*)
(* resume listener) and the page-side content script (scrapeDOM,           *)
(* executeAction, executeActions) as a state machine.  JavaScript runs one *)
(* task at a time, so every action below is the code between two awaits.   *)
(***************************************************************************)
EXTENDS Naturals, Integers, Sequences, FiniteSets, TLC

\* ---------------------------------------------------------------- bounds
MaxRuns == 2        \* calls of executeActions in progress at once
MaxTimers == 1      \* resume timers pending at once
MaxDropped == 1     \* "Already executing" log lines kept
NumElems == 2       \* candidate elements of a document
MaxPlanLen == 3     \* longest action list handed to the page-side executor
MaxRecords == 2     \* ElementRecords of a snapshot handed to the resolver
MaxReplyLen == 3    \* tokens of a reply of the reasoning service
MaxPasses == 2      \* resumptions counted for one suspended task

NULL == "null"
Intents == {"I", "J"}
MissingId == NumElems + 1   \* a targetId no scan of the document hands out
BadId == NumElems + 2       \* a targetId with a double quote in it, as in a"b

\* ---------------------------------------------------------------- actions
Click(t, coe) == [type |-> "CLICK", targetId |-> t, continueOnError |-> coe]
Scroll == [type |-> "SCROLL", targetId |-> 0, continueOnError |-> FALSE]
OpenUrl == [type |-> "OPEN_URL", targetId |-> 0, continueOnError |-> FALSE]
Wait == [type |-> "WAIT", targetId |-> 0, continueOnError |-> FALSE]
Type(t, coe) == [type |-> "TYPE", targetId |-> t, continueOnError |-> coe]

\* The plans /api/analyze answers with (any reply of the reasoning service).
Plans ==
  { <<>>,
    <<Click(MissingId, FALSE), Click(1, FALSE)>>,
    <<Click(MissingId, TRUE), Click(1, FALSE)>>,
    <<Click(1, FALSE), OpenUrl, Click(2, FALSE)>> }

VARIABLES
  pendingIntent,  \* this.pendingIntent
  isExecuting,    \* this.isExecuting
  contextText,    \* this.contextText.textContent
  runs,           \* the calls of executeActions: locals and position
  timers,         \* pending setTimeout callbacks of the onUpdated listener
  dropped,        \* number of dropped calls that were logged
  page,           \* the active tab: its page and content script
  doc,            \* the document of the active tab: its candidate elements
  exec,           \* one page-side executeActions(actions) call
  ctxPending,     \* some setTimeout(updateContext) callback is pending
  snapshot,       \* elements of the latest PageSnapshot the indexer returned
  analysis,       \* one call of the plan resolver: its inputs and its plan
  responses,      \* what the listener of the content script has answered, oldest first
  restores,       \* pending setTimeout callbacks of highlightElement
  suspended       \* the task the latest OPEN_URL left to be resumed, and its resumptions

vars == <<pendingIntent, isExecuting, contextText, runs, timers, dropped,
          page, doc, exec, ctxPending, snapshot, analysis,
          responses, restores, suspended>>

\* The sequences over S of length at most n.
RECURSIVE SeqsUpTo(_, _)
SeqsUpTo(S, n) ==
  IF n = 0 THEN {<<>>}
  ELSE LET shorter == SeqsUpTo(S, n - 1)
       IN shorter \cup {Append(q, x) : q \in shorter, x \in S}

\* ------------------------------------------------------------ page side
\* content_script.js: the candidate elements of the document in DOM order;
\* attr is the number n of the data-agent-id "agent-<n>" (0: no attribute).
Element(p, v, l, a) == [present |-> p, visible |-> v, labeled |-> l, attr |-> a]

\* A newly loaded document: no element carries an id yet.
FreshDoc == [i \in 1..NumElems |-> Element(TRUE, TRUE, TRUE, 0)]

\* scrapeDOM, the forEach from element i on with the counter and the
\* records emitted so far.
RECURSIVE ScanFrom(_, _, _, _)
ScanFrom(d, i, counter, elements) ==
  IF i > Len(d) THEN [doc |-> d, agentIdCounter |-> counter, elements |-> elements]
  ELSE IF ~d[i].present \/ ~d[i].visible THEN ScanFrom(d, i + 1, counter, elements)
  ELSE LET agentId == counter + 1
           d2 == [d EXCEPT ![i].attr = agentId]
       IN IF ~d[i].labeled THEN ScanFrom(d2, i + 1, agentId, elements)
          ELSE ScanFrom(d2, i + 1, agentId, Append(elements, [id |-> agentId, elem |-> i]))

scrapeDOM(d) == ScanFrom(d, 1, 0, <<>>)

\* document.querySelector('[data-agent-id="<targetId>"]'): the first element
\* in DOM order carrying the id, 0 when none does.
querySelector(d, targetId) ==
  LET hits == {i \in 1..Len(d) : targetId # 0 /\ d[i].present /\ d[i].attr = targetId}
  IN IF hits = {} THEN 0 ELSE CHOOSE i \in hits : \A j \in hits : i <= j

NeedsNoTarget(type) == type \in {"SCROLL", "WAIT", "OPEN_URL"}

\* line 157: the selector [data-agent-id="<targetId>"] is built by plain
\* interpolation; with a double quote inside targetId it is no selector and
\* querySelector throws a SyntaxError, before the try of line 165.
ValidSelector(targetId) == targetId # BadId

Throws(action) == ~ValidSelector(action.targetId)

\* The element the action works on (0: none).
ActsOn(action, d) ==
  IF action.type \in {"CLICK", "TYPE", "SELECT", "CHECK"}
  THEN querySelector(d, action.targetId) ELSE 0

\* executeAction: the ActionResult of one action against the document.
executeAction(action, d) ==
  LET element == querySelector(d, action.targetId) IN
  IF element = 0 /\ ~NeedsNoTarget(action.type)
  THEN [success |-> FALSE, action |-> "none", targetId |-> action.targetId,
        error |-> "Element not found"]
  ELSE CASE action.type = "CLICK" ->
              [success |-> TRUE, action |-> "clicked", targetId |-> action.targetId, error |-> ""]
         [] action.type = "TYPE" ->
              [success |-> TRUE, action |-> "typed", targetId |-> action.targetId, error |-> ""]
         [] action.type = "SELECT" ->
              [success |-> TRUE, action |-> "selected", targetId |-> action.targetId, error |-> ""]
         [] action.type = "CHECK" ->
              [success |-> TRUE, action |-> "checked", targetId |-> action.targetId, error |-> ""]
         [] action.type = "SCROLL" ->
              [success |-> TRUE, action |-> "scrolled", targetId |-> 0, error |-> ""]
         [] action.type = "WAIT" ->
              [success |-> TRUE, action |-> "waited", targetId |-> 0, error |-> ""]
         [] action.type = "OPEN_URL" ->
              [success |-> TRUE, action |-> "opened_url", targetId |-> 0, error |-> ""]
         [] OTHER ->
              [success |-> FALSE, action |-> "none", targetId |-> action.targetId,
               error |-> "Unknown action type"]

\* executeActions, line 252: the loop breaks after this result.
BreaksLoop_never(result, action) == FALSE
BreaksLoop(result, action) == ~result.success /\ ~action.continueOnError

\* executeActions: one iteration of the for loop (execute, push, break or
\* pause), on the call's state ex = [actions, idx, results, leaving, acted,
\* pc]; leaving: window.location.href was assigned, the document is on its
\* way out; acted: the elements the actions have worked on.  An exception of
\* executeAction rejects the call: no result list is returned.
executeActionsIter(ex, d) ==
  LET action == ex.actions[ex.idx]
      result == executeAction(action, d)
      results == Append(ex.results, result)
      leaving == ex.leaving \/ (result.success /\ action.type = "OPEN_URL")
      acted == IF result.success /\ ActsOn(action, d) # 0
               THEN ex.acted \cup {ActsOn(action, d)} ELSE ex.acted
  IN IF Throws(action) THEN [ex EXCEPT !.pc = "threw"]
     ELSE IF BreaksLoop(result, action) \/ ex.idx = Len(ex.actions)
     THEN [ex EXCEPT !.results = results, !.leaving = leaving, !.acted = acted,
                     !.pc = "returned"]
     ELSE [ex EXCEPT !.results = results, !.leaving = leaving, !.acted = acted,
                     !.idx = ex.idx + 1]

\* executeActions(actions) up to its first await.
executeActionsCall(actions) ==
  [actions |-> actions, idx |-> 1, results |-> <<>>, leaving |-> FALSE,
   acted |-> {}, pc |-> IF actions = <<>> THEN "returned" ELSE "running"]

NoExec == [actions |-> <<>>, idx |-> 0, results |-> <<>>, leaving |-> FALSE,
           acted |-> {}, pc |-> "idle"]

\* ------------------------------------------------------------ controller
\* sidepanel.js.  A call of executeActions(intent, isResumption) with its
\* locals; pc is the await it is suspended at.  ids tells whether the ids of
\* the call's own scrape are still the latest the page handed out.
NoRun ==
  [pc |-> "none", intent |-> NULL, plan |-> <<>>,
   idx |-> 0, isReady |-> FALSE, lastOk |-> TRUE, ids |-> "none"]

Active(r) == r.pc # "none"

\* No task waits for a page load.  suspended is a record of what the code
\* has done, the code does not read it: intent is the intent of the call
\* that performed the latest OPEN_URL (NULL when the user has asked for
\* something since), passes the calls executeActions(intent, true) made for
\* it since, counted up to MaxPasses.
NoTask == [intent |-> NULL, passes |-> 0]

\* line 513 is reached: the call has performed its OPEN_URL.
Suspends(intent) == [intent |-> intent, passes |-> 0]

\* The listener's timer calls executeActions(intent, true).
Resumes(task, intent) ==
  IF task.intent # NULL /\ intent = task.intent /\ task.passes < MaxPasses
  THEN [task EXCEPT !.passes = task.passes + 1] ELSE task

\* The slot of the next call: the first one no call in progress holds.
FreeSlot == CHOOSE s \in 1..MaxRuns :
              runs[s].pc = "none" /\ \A t \in 1..(s - 1) : runs[t].pc # "none"

HasFreeSlot == \E s \in 1..MaxRuns : runs[s].pc = "none"

\* executeActions, lines 480-483: the call is let in.
Admitted_always(executing, isResumption) == TRUE
Admitted(executing, isResumption) == ~(executing /\ ~isResumption)

\* executeActions, lines 485-490: the admitted call up to await getPrunedDOM.
Enter(intent) ==
  /\ isExecuting' = TRUE
  /\ pendingIntent' = intent
  /\ contextText' = "Analysing..."
  /\ runs' = [runs EXCEPT ![FreeSlot] =
                [NoRun EXCEPT !.pc = "scrape", !.intent = intent]]

\* sendMessage / processVoiceCommand: executeActions(message) for an
\* actionable user message.
UserInput(intent) ==
  /\ IF Admitted(isExecuting, FALSE)
     THEN /\ HasFreeSlot
          /\ Enter(intent)
          /\ suspended' = NoTask
          /\ UNCHANGED dropped
     ELSE /\ dropped < MaxDropped
          /\ dropped' = dropped + 1
          /\ UNCHANGED <<pendingIntent, isExecuting, contextText, runs, suspended>>
  /\ UNCHANGED <<timers, page, doc, exec, ctxPending>>
  /\ UNCHANGED <<snapshot, analysis, responses, restores>>

\* tabs.onUpdated listener, lines 93-100.  A timer carries nothing; the
\* entry of the queue records the intent of the OPEN_URL whose page load the
\* signal completes (NULL for any other load).
OnUpdatedComplete(navIntent) ==
  IF pendingIntent # NULL
  THEN /\ Len(timers) < MaxTimers
       /\ timers' = Append(timers, navIntent)
  ELSE UNCHANGED timers

\* The active tab finishes loading; the content script starts on pages that
\* allow it.
ActiveTabComplete ==
  /\ page.loading
  /\ OnUpdatedComplete(page.navIntent)
  /\ page' = [page EXCEPT !.loading = FALSE, !.cs = ~page.restricted,
                          !.navIntent = NULL]
  /\ UNCHANGED <<pendingIntent, isExecuting, contextText, runs, dropped, doc,
                 exec, ctxPending>>
  /\ UNCHANGED <<snapshot, analysis, responses, restores>>
  /\ UNCHANGED suspended

\* Another tab finishes loading: the listener does not look at tabId.
OtherTabComplete ==
  /\ pendingIntent # NULL
  /\ OnUpdatedComplete(NULL)
  /\ UNCHANGED <<pendingIntent, isExecuting, contextText, runs, dropped, page,
                 doc, exec, ctxPending>>
  /\ UNCHANGED <<snapshot, analysis, responses, restores>>
  /\ UNCHANGED suspended

\* The timer of the listener fires: executeActions(this.pendingIntent, true).
\* Timers of equal delay fire in the order they were set.
TimerFire ==
  /\ timers # <<>>
  /\ HasFreeSlot
  /\ timers' = Tail(timers)
  /\ IF Admitted(isExecuting, TRUE)
     THEN /\ Enter(pendingIntent)
          /\ suspended' = Resumes(suspended, pendingIntent)
     ELSE UNCHANGED <<pendingIntent, isExecuting, contextText, runs, suspended>>
  /\ UNCHANGED <<dropped, page, doc, exec, ctxPending>>
  /\ UNCHANGED <<snapshot, analysis, responses, restores>>

\* A scrape of the page makes the ids of every earlier scrape stale.
Outdated(r) == IF r.ids = "current" THEN [r EXCEPT !.ids = "stale"] ELSE r

\* The page is replaced: no call holds ids of the page any more.
Gone(r) == [r EXCEPT !.ids = "none"]

\* ensureContentScript, lines 345-348: the URL of the tab is a restricted one.
RestrictedUrl_never(pg) == FALSE
RestrictedUrl(pg) == pg.restricted

\* getPrunedDOM, lines 377-405, then line 492 up to await callBackend: no tab
\* or a failed message gives null, a page that is not ready gives an empty
\* element list, else the page handles SCRAPE_DOM (content_script 353-357).
GetPrunedDOM(s) ==
  /\ runs[s].pc = "scrape"
  /\ \/ /\ runs' = [runs EXCEPT ![s].pc = "resolve"]
        /\ UNCHANGED <<page, doc>>
     \/ /\ ~RestrictedUrl(page)
        /\ page' = [page EXCEPT !.cs = TRUE]
        /\ doc' = scrapeDOM(doc).doc
        /\ runs' = [t \in 1..MaxRuns |->
                      IF t = s THEN [runs[s] EXCEPT !.pc = "resolve", !.ids = "current"]
                      ELSE Outdated(runs[t])]
  /\ UNCHANGED <<pendingIntent, isExecuting, contextText, timers, dropped,
                 exec, ctxPending>>
  /\ UNCHANGED <<snapshot, analysis, responses, restores>>
  /\ UNCHANGED suspended

\* finally, lines 546-549, and the return: the locals are gone.
Finally_busy(s) ==
  /\ UNCHANGED isExecuting
  /\ ctxPending' = TRUE
  /\ runs' = [runs EXCEPT ![s] = NoRun]

Finally(s) ==
  /\ isExecuting' = FALSE
  /\ ctxPending' = TRUE
  /\ runs' = [runs EXCEPT ![s] = NoRun]

\* catch, lines 542-545, then finally.
Catch_keep(s) ==
  /\ contextText' = "Agent Error"
  /\ UNCHANGED pendingIntent
  /\ Finally(s)

Catch(s) ==
  /\ contextText' = "Agent Error"
  /\ pendingIntent' = NULL
  /\ Finally(s)

\* lines 537-541: what the else branch leaves in pendingIntent.
AfterEmptyPlan_keep(pending) == pending
AfterEmptyPlan(pending) == NULL

\* callBackend('/api/analyze') returns or throws, lines 492-498 and 537-541.
\* The backend answers 400 to a request without intent (agent.js 30-35).
Analyze(s) ==
  /\ runs[s].pc = "resolve"
  /\ \/ /\ Catch(s)
     \/ /\ runs[s].intent # NULL
        /\ \E plan \in Plans :
             IF Len(plan) > 0
             THEN /\ contextText' = "Executing actions..."
                  /\ runs' = [runs EXCEPT ![s].plan = plan, ![s].pc = "prepare"]
                  /\ UNCHANGED <<pendingIntent, isExecuting, ctxPending>>
             ELSE /\ contextText' = "Task complete"
                  /\ pendingIntent' = AfterEmptyPlan(pendingIntent)
                  /\ Finally(s)
  /\ UNCHANGED <<timers, dropped, page, doc, exec>>
  /\ UNCHANGED <<snapshot, analysis, responses, restores>>
  /\ UNCHANGED suspended

\* line 508: the action is handled by the side panel itself.
IsOpenUrl(action) == action.type = "OPEN_URL"

\* lines 517-520: with a page that is not ready every element action is
\* skipped; the index of the next action the loop does something with.
NextHandled_skip(r) == r.idx + 1
NextHandled_ready(r) == r.idx
NextHandled(r) ==
  IF r.isReady THEN r.idx
  ELSE LET rest == {j \in r.idx..Len(r.plan) : IsOpenUrl(r.plan[j])}
       IN IF rest = {} THEN Len(r.plan) + 1
          ELSE CHOOSE j \in rest : \A k \in rest : j <= k

\* chrome.tabs.sendMessage(EXECUTE_ACTIONS, [action]): without a listening
\* content script the callback sees lastError; else the page runs
\* executeActions([action]) (content_script 359-364) and answers.
PageAnswer(action, pg, d) ==
  IF ~pg.cs THEN FALSE
  ELSE executeActionsIter(executeActionsCall(<<action>>), d).results[1].success

\* The for loop of lines 506-536 from its head, r.idx being the next index,
\* up to the next await (or through finally when the loop is over).
LoopHead(s, r, pg, executing) ==
  LET j == NextHandled(r) IN
  IF j > Len(r.plan)
  THEN /\ Finally(s)
       /\ page' = pg
       /\ UNCHANGED doc
  ELSE IF IsOpenUrl(r.plan[j])
  THEN \* line 511: chrome.tabs.update is called; it navigates or rejects
       \/ /\ runs' = [t \in 1..MaxRuns |->
                        IF t = s THEN Gone([r EXCEPT !.idx = j, !.pc = "navigate"])
                        ELSE Gone(runs[t])]
          /\ \E restricted \in BOOLEAN :
               page' = [restricted |-> restricted, cs |-> FALSE, loading |-> TRUE,
                        navIntent |-> r.intent]
          /\ doc' = FreshDoc
          /\ isExecuting' = executing
          /\ UNCHANGED <<ctxPending>>
       \/ /\ runs' = [runs EXCEPT ![s] = [r EXCEPT !.idx = j, !.pc = "navfail"]]
          /\ page' = pg
          /\ isExecuting' = executing
          /\ UNCHANGED <<doc, ctxPending>>
  ELSE \* lines 523-535: the action goes to the content script
       /\ runs' = [runs EXCEPT ![s] =
                     [r EXCEPT !.idx = j, !.pc = "dispatch",
                               !.lastOk = PageAnswer(r.plan[j], pg, doc)]]
       /\ page' = pg
       /\ isExecuting' = executing
       /\ UNCHANGED <<doc, ctxPending>>

\* chrome.tabs.query and ensureContentScript return (lines 500-504 and
\* 343-375), then the loop starts.  The query reads nothing but the tab.
Prepare(s) ==
  /\ runs[s].pc = "prepare"
  /\ \/ /\ Finally(s)
        /\ UNCHANGED <<page, doc>>
     \/ /\ RestrictedUrl(page) \/ ~page.cs
        /\ LoopHead(s, [runs[s] EXCEPT !.isReady = FALSE, !.idx = 1], page,
                    isExecuting)
     \/ /\ ~RestrictedUrl(page)
        /\ LoopHead(s, [runs[s] EXCEPT !.isReady = TRUE, !.idx = 1],
                    [page EXCEPT !.cs = TRUE], isExecuting)
  /\ UNCHANGED <<pendingIntent, contextText, timers, dropped, exec>>
  /\ UNCHANGED <<snapshot, analysis, responses, restores>>
  /\ UNCHANGED suspended

\* line 514: the index the loop goes on with after an OPEN_URL (return: none).
AfterOpenUrl_next(r) == r.idx + 1
AfterOpenUrl(r) == Len(r.plan) + 1

\* chrome.tabs.update has returned, lines 512-514, or thrown.
NavigateDone(s) ==
  /\ \/ /\ runs[s].pc = "navigate"
        /\ contextText' = "Navigating..."
        /\ LoopHead(s, [runs[s] EXCEPT !.idx = AfterOpenUrl(runs[s])], page,
                    FALSE)
        /\ suspended' = Suspends(runs[s].intent)
        /\ UNCHANGED pendingIntent
     \/ /\ runs[s].pc = "navfail"
        /\ Catch(s)
        /\ UNCHANGED <<page, doc, suspended>>
  /\ UNCHANGED <<timers, dropped, exec>>
  /\ UNCHANGED <<snapshot, analysis, responses, restores>>

\* The callback of sendMessage resolves the promise (lines 527-534); its
\* value is dropped and the loop goes on with the next action.
ActionResponse(s) ==
  /\ runs[s].pc = "dispatch"
  /\ LoopHead(s, [runs[s] EXCEPT !.idx = runs[s].idx + 1], page, isExecuting)
  /\ UNCHANGED <<pendingIntent, contextText, timers, dropped, exec>>
  /\ UNCHANGED <<snapshot, analysis, responses, restores>>
  /\ UNCHANGED suspended

\* updateContext (lines 323-333), two seconds after a call ended; the
\* callbacks of other calls may still be pending.
UpdateContext ==
  /\ ctxPending
  /\ ctxPending' \in BOOLEAN
  /\ contextText' = "hostname"
  /\ UNCHANGED <<pendingIntent, isExecuting, runs, timers, dropped, page, doc,
                 exec>>
  /\ UNCHANGED <<snapshot, analysis, responses, restores>>
  /\ UNCHANGED suspended

\* No call of the resolver is followed.
NoAnalysis == [pc |-> "none"]

\* The state after the constructor and init(): lines 19-20, no call made.
Init ==
  /\ pendingIntent = NULL
  /\ isExecuting = FALSE
  /\ contextText = "hostname"
  /\ runs = [s \in 1..MaxRuns |-> NoRun]
  /\ timers = <<>>
  /\ dropped = 0
  /\ ctxPending = FALSE
  /\ \E restricted \in BOOLEAN :
       page = [restricted |-> restricted, cs |-> ~restricted, loading |-> FALSE,
               navIntent |-> NULL]
  /\ doc = FreshDoc
  /\ exec = NoExec
  /\ snapshot = <<>>
  /\ analysis = NoAnalysis
  /\ responses = <<>>
  /\ restores = <<>>
  /\ suspended = NoTask

Next ==
  \/ \E intent \in Intents : UserInput(intent)
  \/ ActiveTabComplete
  \/ OtherTabComplete
  \/ TimerFire
  \/ \E s \in 1..MaxRuns : GetPrunedDOM(s)
  \/ \E s \in 1..MaxRuns : Analyze(s)
  \/ \E s \in 1..MaxRuns : Prepare(s)
  \/ \E s \in 1..MaxRuns : NavigateDone(s)
  \/ \E s \in 1..MaxRuns : ActionResponse(s)
  \/ UpdateContext

Spec == Init /\ [][Next]_vars

\* ------------------------------------------------- page-side executor alone
\* One EXECUTE_ACTIONS message with any action list, against a scanned
\* document that the page goes on changing while the executor sleeps.
ExecActions ==
  {Click(t, coe) : t \in {1, MissingId}, coe \in BOOLEAN}
    \cup {Scroll, OpenUrl, Wait, Type(MissingId, TRUE), Click(BadId, TRUE)}

InitExec ==
  /\ pendingIntent = NULL
  /\ isExecuting = FALSE
  /\ contextText = "hostname"
  /\ runs = [s \in 1..MaxRuns |-> NoRun]
  /\ timers = <<>>
  /\ dropped = 0
  /\ ctxPending = FALSE
  /\ page = [restricted |-> FALSE, cs |-> TRUE, loading |-> FALSE, navIntent |-> NULL]
  /\ \E shown \in [1..NumElems -> BOOLEAN] :
       doc = scrapeDOM([i \in 1..NumElems |-> Element(TRUE, shown[i], TRUE, 0)]).doc
  /\ \E actions \in SeqsUpTo(ExecActions, MaxPlanLen) :
       exec = executeActionsCall(actions)
  /\ snapshot = <<>>
  /\ analysis = NoAnalysis
  /\ responses = <<>>
  /\ restores = <<>>
  /\ suspended = NoTask

\* The next iteration of the loop of executeActions runs.
ExecIterate ==
  /\ exec.pc = "running"
  /\ exec' = executeActionsIter(exec, doc)
  /\ UNCHANGED <<pendingIntent, isExecuting, contextText, runs, timers, dropped,
                 page, doc, ctxPending>>
  /\ UNCHANGED <<snapshot, analysis, responses, restores>>
  /\ UNCHANGED suspended

\* The navigation started by OPEN_URL replaces the document: the script and
\* its pending executeActions are gone.
ExecUnload ==
  /\ exec.pc = "running"
  /\ exec.leaving
  /\ exec' = [exec EXCEPT !.pc = "unloaded"]
  /\ UNCHANGED <<pendingIntent, isExecuting, contextText, runs, timers, dropped,
                 page, doc, ctxPending>>
  /\ UNCHANGED <<snapshot, analysis, responses, restores>>
  /\ UNCHANGED suspended

\* The page removes element i while the executor sleeps.
DocRemove(i) ==
  /\ exec.pc = "running"
  /\ doc[i].present
  /\ doc' = [doc EXCEPT ![i].present = FALSE]
  /\ UNCHANGED <<pendingIntent, isExecuting, contextText, runs, timers, dropped,
                 page, exec, ctxPending>>
  /\ UNCHANGED <<snapshot, analysis, responses, restores>>
  /\ UNCHANGED suspended

NextExec ==
  \/ ExecIterate
  \/ ExecUnload
  \/ \E i \in 1..NumElems : DocRemove(i)

SpecExec == InitExec /\ [][NextExec]_vars

\* ------------------------------------------------------- plan resolver
\* agent.js.  A JavaScript string is the sequence of its characters.
UpperCase == <<"A", "B", "C", "D", "E", "F", "G", "H", "I", "J", "K", "L", "M", "N", "O", "P", "Q", "R", "S", "T", "U", "V", "W", "X", "Y", "Z">>
LowerCase == <<"a", "b", "c", "d", "e", "f", "g", "h", "i", "j", "k", "l", "m", "n", "o", "p", "q", "r", "s", "t", "u", "v", "w", "x", "y", "z">>

\* String.prototype.toLowerCase.
toLowerCase(str) ==
  [i \in 1..Len(str) |->
     IF \E k \in 1..Len(UpperCase) : UpperCase[k] = str[i]
     THEN LowerCase[CHOOSE k \in 1..Len(UpperCase) : UpperCase[k] = str[i]]
     ELSE str[i]]

\* The text of str from position p on.
After(str, p) == SubSeq(str, p, Len(str))

\* str has the text w at position p.
StartsAt(str, p, w) ==
  /\ p >= 1
  /\ p + Len(w) - 1 <= Len(str)
  /\ SubSeq(str, p, p + Len(w) - 1) = w

\* String.prototype.includes.
includes(str, w) == \E p \in 1..(Len(str) + 1) : StartsAt(str, p, w)

\* \s+ at position p of the regular expressions: the first position behind
\* the run of white space that starts at p (p itself when there is none).
RECURSIVE SkipSpace(_, _)
SkipSpace(str, p) ==
  IF p <= Len(str) /\ str[p] = " " THEN SkipSpace(str, p + 1) ELSE p

\* split(/\s+/): the words of str, from character i on, cur being the word
\* under way and words the finished ones.
RECURSIVE SplitFrom(_, _, _, _)
SplitFrom(str, i, cur, words) ==
  IF i > Len(str) THEN Append(words, cur)
  ELSE IF str[i] = " "
       THEN SplitFrom(str, SkipSpace(str, i), <<>>, Append(words, cur))
       ELSE SplitFrom(str, i + 1, Append(cur, str[i]), words)

split(str) == SplitFrom(str, 1, <<>>, <<>>)

\* null where an ElementRecord is expected.
NoElement == [id |-> 0, label |-> <<>>, type |-> "none", disabled |-> TRUE]

\* findBestMatch, lines 232-237: the sum over the query words found in the
\* label, from word k on.
RECURSIVE WordScore(_, _, _)
WordScore(labelLower, queryWords, k) ==
  IF k > Len(queryWords) THEN 0
  ELSE (IF includes(labelLower, queryWords[k]) THEN Len(queryWords[k]) ELSE 0)
       + WordScore(labelLower, queryWords, k + 1)

\* findBestMatch, lines 229-247: the score of one element, counted in halves
\* (twice the score) so that the factor 1.5 stays in the integers.
\* preferredTypes is a set, empty for null.
ElementScore(element, query, preferredTypes) ==
  LET labelLower == toLowerCase(element.label)
      words == WordScore(labelLower, split(toLowerCase(query)), 1)
      boosted == IF element.type \in preferredTypes THEN 3 * words ELSE 2 * words
  IN IF labelLower = query THEN 2 * boosted ELSE boosted

\* line 249: the element replaces the best one so far.
Better_orEqual(score, bestScore) == score >= bestScore
Better(score, bestScore) == score > bestScore

\* line 228: if (element.disabled) continue.
Disabled_never(element) == FALSE
Disabled(element) == element.disabled

\* findBestMatch: the for loop from element i on.
RECURSIVE MatchFrom(_, _, _, _, _, _)
MatchFrom(elements, i, query, preferredTypes, bestMatch, bestScore) ==
  IF i > Len(elements) THEN (IF bestScore > 0 THEN bestMatch ELSE NoElement)
  ELSE IF Disabled(elements[i])
  THEN MatchFrom(elements, i + 1, query, preferredTypes, bestMatch, bestScore)
  ELSE LET score == ElementScore(elements[i], query, preferredTypes)
       IN IF Better(score, bestScore)
          THEN MatchFrom(elements, i + 1, query, preferredTypes, elements[i], score)
          ELSE MatchFrom(elements, i + 1, query, preferredTypes, bestMatch, bestScore)

findBestMatch(elements, query, preferredTypes) ==
  MatchFrom(elements, 1, query, preferredTypes, NoElement, 0)

\* The regular expressions of generateDemoActions, for a trimmed text whose
\* words are separated by single blanks and that holds no quote character.
NoMatch == [matched |-> FALSE, value |-> <<>>, target |-> <<>>]

\* keyword\s+ matches at p and text is left behind it.
KeywordAt(str, p, w) ==
  /\ StartsAt(str, p, w)
  /\ SkipSpace(str, p + Len(w)) > p + Len(w)
  /\ SkipSpace(str, p + Len(w)) <= Len(str)

\* (?:w\s+)? at the head of rest: taken when it leaves text for the capture.
OptionalWord(rest, w) ==
  IF KeywordAt(rest, 1, w) THEN After(rest, SkipSpace(rest, Len(w) + 1)) ELSE rest

Leftmost(hits) == CHOOSE p \in hits : \A q \in hits : p <= q

\* line 128: /click\s+(?:on\s+)?(?:the\s+)?["']?(.+?)["']?$/
clickMatch(str) ==
  LET hits == {p \in 1..Len(str) : KeywordAt(str, p, <<"c", "l", "i", "c", "k">>)}
  IN IF hits = {} THEN NoMatch
     ELSE LET rest == After(str, SkipSpace(str, Leftmost(hits) + 5))
          IN [matched |-> TRUE, value |-> <<>>,
              target |-> OptionalWord(OptionalWord(rest, <<"o", "n">>), <<"t", "h", "e">>)]

\* line 170: /search\s+(?:for\s+)?["']?(.+?)["']?$/
searchMatch(str) ==
  LET hits == {p \in 1..Len(str) : KeywordAt(str, p, <<"s", "e", "a", "r", "c", "h">>)}
  IN IF hits = {} THEN NoMatch
     ELSE LET rest == After(str, SkipSpace(str, Leftmost(hits) + 6))
          IN [matched |-> TRUE, value |-> OptionalWord(rest, <<"f", "o", "r">>),
              target |-> <<>>]

TypeVerbs == {<<"t", "y", "p", "e">>, <<"e", "n", "t", "e", "r">>, <<"i", "n", "p", "u", "t">>}

\* \s+(?:in|into)\s+ matches at the blank k and text is left behind it.
InAt(str, k) ==
  /\ str[k] = " "
  /\ \/ KeywordAt(str, SkipSpace(str, k), <<"i", "n">>)
     \/ KeywordAt(str, SkipSpace(str, k), <<"i", "n", "t", "o">>)

\* line 142: /(?:type|enter|input)\s+["']?(.+?)["']?\s+(?:in|into)\s+
\*            (?:the\s+)?["']?(.+?)["']?$/ ; the first capture is lazy, so it
\* ends at the first blank where the rest of the expression matches.
typeMatch(str) ==
  LET ValueStart(p) ==
        SkipSpace(str, p + Len(CHOOSE v \in TypeVerbs : KeywordAt(str, p, v)))
      ValueEnds(p) == {k \in (ValueStart(p) + 1)..Len(str) : InAt(str, k)}
      hits == {p \in 1..Len(str) :
                 /\ \E v \in TypeVerbs : KeywordAt(str, p, v)
                 /\ ValueEnds(p) # {}}
  IN IF hits = {} THEN NoMatch
     ELSE LET p == Leftmost(hits)
              k == Leftmost(ValueEnds(p))
              q == SkipSpace(str, k)
              inLen == IF KeywordAt(str, q, <<"i", "n">>) THEN 2 ELSE 4
              rest == After(str, SkipSpace(str, q + inLen))
          IN [matched |-> TRUE, value |-> SubSeq(str, ValueStart(p), k - 1),
              target |-> OptionalWord(rest, <<"t", "h", "e">>)]

\* The actions generateDemoActions pushes.
PlanClick(element) ==
  [type |-> "CLICK", targetId |-> element.id, value |-> <<>>, options |-> "none"]
PlanType(element, value) ==
  [type |-> "TYPE", targetId |-> element.id, value |-> value, options |-> "none"]
PlanScroll(direction) ==
  [type |-> "SCROLL", targetId |-> 0, value |-> <<>>, options |-> direction]

\* The preferred types the rules hand to findBestMatch.
ClickTypes == {"button", "link", "interactive"}
TypeTypes == {"input", "textarea"}
LoginTypes == {"button", "link"}
SearchInputTypes == {"input"}
SearchButtonTypes == {"button"}

\* if (element) actions.push(...)
PushIf_never(element, action) == <<>>
PushIf(element, action) == IF element # NoElement THEN <<action>> ELSE <<>>

\* The actions array after the five rules: every rule pushes behind what
\* the rules above it in the source have pushed.
Pushed_scrollFirst(clicks, types, logins, searches, scrolls) ==
  scrolls \o clicks \o types \o logins \o searches
Pushed(clicks, types, logins, searches, scrolls) ==
  clicks \o types \o logins \o searches \o scrolls

\* generateDemoActions, lines 122-216.
generateDemoActions(intent, elements) ==
  LET intentLower == toLowerCase(intent)
      clicked == clickMatch(intentLower)
      typed == typeMatch(intentLower)
      searched == searchMatch(intentLower)
      clickActions ==
        IF clicked.matched
        THEN LET element == findBestMatch(elements, toLowerCase(clicked.target), ClickTypes)
             IN PushIf(element, PlanClick(element))
        ELSE <<>>
      typeActions ==
        IF typed.matched
        THEN LET element == findBestMatch(elements, toLowerCase(typed.target), TypeTypes)
             IN PushIf(element, PlanType(element, typed.value))
        ELSE <<>>
      loginActions ==
        IF includes(intentLower, <<"l", "o", "g", "i", "n">>) \/ includes(intentLower, <<"s", "i", "g", "n", " ", "i", "n">>)
        THEN LET loginBtn == findBestMatch(elements, <<"l", "o", "g", "i", "n", " ", "s", "i", "g", "n", " ", "i", "n", " ", "s", "u", "b", "m", "i", "t">>, LoginTypes)
             IN PushIf(loginBtn, PlanClick(loginBtn))
        ELSE <<>>
      searchActions ==
        IF searched.matched
        THEN LET searchInput == findBestMatch(elements, <<"s", "e", "a", "r", "c", "h", " ", "q", "u", "e", "r", "y">>, SearchInputTypes)
                 searchBtn == findBestMatch(elements, <<"s", "e", "a", "r", "c", "h", " ", "s", "u", "b", "m", "i", "t", " ", "g", "o">>, SearchButtonTypes)
             IN PushIf(searchInput, PlanType(searchInput, searched.value))
                  \o PushIf(searchBtn, PlanClick(searchBtn))
        ELSE <<>>
      scrollActions ==
        IF includes(intentLower, <<"s", "c", "r", "o", "l", "l">>)
        THEN <<PlanScroll(IF includes(intentLower, <<"u", "p">>) THEN "up" ELSE "down")>>
        ELSE <<>>
      actions == Pushed(clickActions, typeActions, loginActions, searchActions,
                        scrollActions)
  IN IF Len(actions) = 0
     THEN LET anyMatch == findBestMatch(elements, intentLower, {})
          IN PushIf(anyMatch, PlanClick(anyMatch))
     ELSE actions

\* The reply of the reasoning service as a sequence of tokens: the brackets,
\* the comma, "{}" for one action literal, "x" for any other text.
ReplyTokens == {"[", "]", ",", "{}", "x"}

\* line 105: response.match(/\[[\s\S]*\]/), from the first "[" to the last
\* "]" behind it; the empty sequence stands for null.
jsonMatch(response) ==
  LET opens == {i \in 1..Len(response) : response[i] = "["}
      closes == {j \in 1..Len(response) : response[j] = "]"}
  IN IF opens = {} THEN <<>>
     ELSE LET first == Leftmost(opens)
              behind == {j \in closes : j > first}
          IN IF behind = {} THEN <<>>
             ELSE SubSeq(response, first, CHOOSE j \in behind : \A k \in behind : k <= j)

\* What an action literal and a nested array parse to.
LlmAction == [type |-> "WAIT", targetId |-> 0, value |-> <<>>, options |-> "llm"]
LlmArray == [type |-> "array", targetId |-> 0, value |-> <<>>, options |-> "llm"]

ParseError == [ok |-> FALSE, next |-> 0, items |-> <<>>]

\* JSON.parse on the tokens: the items of the array that starts at token i
\* ("[" is at i - 1), items being those read so far.
RECURSIVE ParseItems(_, _, _)
ParseItems(tokens, i, items) ==
  IF i > Len(tokens) THEN ParseError
  ELSE LET value ==
             IF tokens[i] = "{}" THEN [ok |-> TRUE, next |-> i + 1, items |-> <<>>]
             ELSE IF tokens[i] = "[" /\ i < Len(tokens) /\ tokens[i + 1] = "]"
             THEN [ok |-> TRUE, next |-> i + 2, items |-> <<>>]
             ELSE IF tokens[i] = "[" THEN ParseItems(tokens, i + 1, <<>>)
             ELSE ParseError
           item == IF tokens[i] = "{}" THEN LlmAction ELSE LlmArray
       IN IF ~value.ok \/ value.next > Len(tokens) THEN ParseError
          ELSE IF tokens[value.next] = ","
          THEN ParseItems(tokens, value.next + 1, Append(items, item))
          ELSE IF tokens[value.next] = "]"
          THEN [ok |-> TRUE, next |-> value.next + 1, items |-> Append(items, item)]
          ELSE ParseError

\* line 107: JSON.parse(jsonMatch[0]) of a text that starts with "[" and ends
\* with "]"; ok is false where it throws.
JSONparse(tokens) ==
  IF Len(tokens) = 2 THEN [ok |-> TRUE, next |-> 3, items |-> <<>>]
  ELSE LET parsed == ParseItems(tokens, 2, <<>>)
       IN IF parsed.ok /\ parsed.next = Len(tokens) + 1 THEN parsed ELSE ParseError

\* generateActionsWithLLM, lines 80-116, from the return of the service on:
\* service.throws tells that generateWithOpenAI (or the require) threw.
AfterService_empty(intent, elements, service) == <<>>
AfterService(intent, elements, service) ==
  IF service.throws THEN generateDemoActions(intent, elements)
  ELSE LET matched == jsonMatch(service.response)
       IN IF matched = <<>> THEN generateDemoActions(intent, elements)
          ELSE IF JSONparse(matched).ok THEN JSONparse(matched).items
          ELSE generateDemoActions(intent, elements)

\* ------------------------------------------------- the resolver alone
\* ElementRecords a snapshot may hold (id n stands for "agent-<n>").
SearchInput == [id |-> 1, label |-> <<"s", "e", "a", "r", "c", "h">>, type |-> "input", disabled |-> FALSE]
GoButton == [id |-> 2, label |-> <<"g", "o">>, type |-> "button", disabled |-> FALSE]
SubmitButton == [id |-> 3, label |-> <<"S", "u", "b", "m", "i", "t">>, type |-> "button", disabled |-> FALSE]
SubmitLink == [id |-> 4, label |-> <<"S", "u", "b", "m", "i", "t", " ", "b", "u", "t", "t", "o", "n">>, type |-> "link", disabled |-> FALSE]
DisabledGo == [id |-> 5, label |-> <<"G", "o">>, type |-> "button", disabled |-> TRUE]
SearchInput2 == [id |-> 6, label |-> <<"S", "e", "a", "r", "c", "h">>, type |-> "input", disabled |-> FALSE]

RecordPool ==
  {SearchInput, GoButton, SubmitButton, SubmitLink, DisabledGo, SearchInput2}

\* The element lists of at most n records of the pool, none twice.
RECURSIVE ListsUpTo(_)
ListsUpTo(n) ==
  IF n = 0 THEN {<<>>}
  ELSE LET shorter == ListsUpTo(n - 1)
       IN shorter \cup
          {Append(x[1], x[2]) :
             x \in {y \in shorter \X RecordPool :
                      \A i \in 1..Len(y[1]) : y[1][i] # y[2]}}

SearchIntent == <<"s", "e", "a", "r", "c", "h", " ", "f", "o", "r", " ", "w", "i", "r", "e", "l", "e", "s", "s", " ", "m", "o", "u", "s", "e">>
ClickIntent == <<"c", "l", "i", "c", "k", " ", "o", "n", " ", "t", "h", "e", " ", "S", "u", "b", "m", "i", "t", " ", "b", "u", "t", "t", "o", "n">>
TypeIntent == <<"t", "y", "p", "e", " ", "h", "e", "l", "l", "o", " ", "i", "n", "t", "o", " ", "s", "e", "a", "r", "c", "h">>
LoginIntent == <<"l", "o", "g", "i", "n">>
ScrollIntent == <<"s", "c", "r", "o", "l", "l", " ", "u", "p">>
PlainIntent == <<"S", "e", "a", "r", "c", "h", " ", "g", "o">>

\* The intents of the requests; the empty one stands for a missing intent.
ResolveIntents ==
  {SearchIntent, ClickIntent, TypeIntent, LoginIntent, ScrollIntent, PlainIntent, <<>>}

\* What the reasoning service does with a request.
ServiceOutcomes ==
  {[throws |-> TRUE, response |-> <<>>]}
    \cup {[throws |-> FALSE, response |-> r] : r \in SeqsUpTo(ReplyTokens, MaxReplyLen)}

NoService == [throws |-> FALSE, response |-> <<>>]

OtherVarsIdle ==
  /\ pendingIntent = NULL
  /\ isExecuting = FALSE
  /\ contextText = "hostname"
  /\ runs = [s \in 1..MaxRuns |-> NoRun]
  /\ timers = <<>>
  /\ dropped = 0
  /\ ctxPending = FALSE
  /\ page = [restricted |-> FALSE, cs |-> TRUE, loading |-> FALSE, navIntent |-> NULL]
  /\ doc = FreshDoc
  /\ exec = NoExec
  /\ snapshot = <<>>
  /\ responses = <<>>
  /\ restores = <<>>
  /\ suspended = NoTask

\* A POST /api/analyze has arrived; without a key no service is called.
InitResolve ==
  /\ OtherVarsIdle
  /\ \E intent \in ResolveIntents, elements \in ListsUpTo(MaxRecords),
        openAIKey \in BOOLEAN :
       \E service \in (IF openAIKey THEN ServiceOutcomes ELSE {NoService}) :
         analysis = [pc |-> "request", intent |-> intent, elements |-> elements,
                     openAIKey |-> openAIKey, service |-> service,
                     status |-> 0, actions |-> <<>>]

\* The route handler, lines 25-72, and generateActionsWithLLM up to its
\* await (with a key) or through the fallback (without one).
AnalyzeRoute ==
  /\ analysis.pc = "request"
  /\ analysis' =
       IF analysis.intent = <<>>
       THEN [analysis EXCEPT !.pc = "responded", !.status = 400]
       ELSE IF analysis.openAIKey
       THEN [analysis EXCEPT !.pc = "awaiting"]
       ELSE [analysis EXCEPT !.pc = "responded", !.status = 200,
               !.actions = generateDemoActions(analysis.intent, analysis.elements)]
  /\ UNCHANGED <<pendingIntent, isExecuting, contextText, runs, timers, dropped,
                 page, doc, exec, ctxPending, snapshot,
                 responses, restores>>
  /\ UNCHANGED suspended

\* generateWithOpenAI has returned or thrown: lines 104-116, then 56-63.
ServiceReturns ==
  /\ analysis.pc = "awaiting"
  /\ analysis' = [analysis EXCEPT !.pc = "responded", !.status = 200,
                    !.actions = AfterService(analysis.intent, analysis.elements,
                                             analysis.service)]
  /\ UNCHANGED <<pendingIntent, isExecuting, contextText, runs, timers, dropped,
                 page, doc, exec, ctxPending, snapshot,
                 responses, restores>>
  /\ UNCHANGED suspended

NextResolve ==
  \/ AnalyzeRoute
  \/ ServiceReturns

SpecResolve == InitResolve /\ [][NextResolve]_vars

\* findBestMatch alone, on any element list, query and preferred types.
MatchQueries ==
  {<<"s", "e", "a", "r", "c", "h", " ", "q", "u", "e", "r", "y">>, <<"s", "e", "a", "r", "c", "h", " ", "s", "u", "b", "m", "i", "t", " ", "g", "o">>, <<"s", "u", "b", "m", "i", "t", " ", "b", "u", "t", "t", "o", "n">>, <<"g", "o">>, <<"G", "O">>, <<"x">>, <<>>}

MatchTypes == {{}, {"button"}, {"input"}, {"button", "link", "interactive"}}

InitMatch ==
  /\ OtherVarsIdle
  /\ \E elements \in ListsUpTo(MaxRecords), query \in MatchQueries,
        preferredTypes \in MatchTypes :
       analysis = [pc |-> "match", elements |-> elements, query |-> query,
                   preferredTypes |-> preferredTypes, result |-> NoElement]

Match ==
  /\ analysis.pc = "match"
  /\ analysis' = [analysis EXCEPT !.pc = "matched",
                    !.result = findBestMatch(analysis.elements, analysis.query,
                                             analysis.preferredTypes)]
  /\ UNCHANGED <<pendingIntent, isExecuting, contextText, runs, timers, dropped,
                 page, doc, exec, ctxPending, snapshot,
                 responses, restores>>
  /\ UNCHANGED suspended

NextMatch == Match

SpecMatch == InitMatch /\ [][NextMatch]_vars

\* ------------------------------------------------------ the indexer alone
\* SCRAPE_DOM messages against a document the page goes on changing.
PageVarsIdle ==
  /\ pendingIntent = NULL
  /\ isExecuting = FALSE
  /\ contextText = "hostname"
  /\ runs = [s \in 1..MaxRuns |-> NoRun]
  /\ timers = <<>>
  /\ dropped = 0
  /\ ctxPending = FALSE
  /\ page = [restricted |-> FALSE, cs |-> TRUE, loading |-> FALSE, navIntent |-> NULL]
  /\ exec = NoExec
  /\ analysis = NoAnalysis
  /\ responses = <<>>
  /\ restores = <<>>
  /\ suspended = NoTask

InitScan ==
  /\ PageVarsIdle
  /\ snapshot = <<>>
  /\ \E there, shown, named \in [1..NumElems -> BOOLEAN] :
       doc = [i \in 1..NumElems |-> Element(there[i], shown[i], named[i], 0)]

\* The listener of content_script.js 353-357 answers SCRAPE_DOM.
Scan ==
  /\ doc' = scrapeDOM(doc).doc
  /\ snapshot' = scrapeDOM(doc).elements
  /\ UNCHANGED <<pendingIntent, isExecuting, contextText, runs, timers, dropped,
                 page, exec, ctxPending, analysis,
                 responses, restores>>
  /\ UNCHANGED suspended

\* The page hides or shows element i (style, size or scroll position).
DocSetVisible(i, v) ==
  /\ doc[i].present
  /\ doc[i].visible # v
  /\ doc' = [doc EXCEPT ![i].visible = v]
  /\ UNCHANGED <<pendingIntent, isExecuting, contextText, runs, timers, dropped,
                 page, exec, ctxPending, snapshot, analysis,
                 responses, restores>>
  /\ UNCHANGED suspended

\* The page removes element i from the document.
DocDetach(i) ==
  /\ doc[i].present
  /\ doc' = [doc EXCEPT ![i].present = FALSE]
  /\ UNCHANGED <<pendingIntent, isExecuting, contextText, runs, timers, dropped,
                 page, exec, ctxPending, snapshot, analysis,
                 responses, restores>>
  /\ UNCHANGED suspended

\* The page inserts a new element at place i of the DOM order.
DocInsert(i, v, l) ==
  /\ ~doc[i].present
  /\ doc' = [doc EXCEPT ![i] = Element(TRUE, v, l, 0)]
  /\ UNCHANGED <<pendingIntent, isExecuting, contextText, runs, timers, dropped,
                 page, exec, ctxPending, snapshot, analysis,
                 responses, restores>>
  /\ UNCHANGED suspended

NextScan ==
  \/ Scan
  \/ \E i \in 1..NumElems, v \in BOOLEAN : DocSetVisible(i, v)
  \/ \E i \in 1..NumElems : DocDetach(i)
  \/ \E i \in 1..NumElems, v, l \in BOOLEAN : DocInsert(i, v, l)

SpecScan == InitScan /\ [][NextScan]_vars

\* ------------------------------------------------------------ properties
Slots == 1..MaxRuns

\* Steps of a call, read off two successive states.
Enters(s) == runs[s].pc = "none" /\ runs'[s].pc = "scrape"
Ends(s) == runs[s].pc # "none" /\ runs'[s].pc = "none"
Dispatches(s) ==
  /\ runs'[s].pc = "dispatch"
  /\ runs[s].pc = "dispatch" => runs'[s].idx # runs[s].idx
TimerFires == timers # <<>> /\ timers' = Tail(timers)

C2_OneRunAtATime ==
  Cardinality({s \in Slots : runs[s].pc \notin {"none", "navigate"}}) <= 1

\* C3: no other SCRAPE_DOM is processed by the page between the scrape that
\* produced a plan's target ids and the dispatch of the plan's actions: a
\* call dispatches only while the ids of its scrape are the page's latest.
C3_NoScrapeBetween ==
  [][\A s \in Slots : Dispatches(s) => runs[s].ids # "stale"]_vars

C5_HaltOnFailure ==
  [][\A s \in Slots :
       runs[s].pc = "dispatch" /\ Dispatches(s) =>
         runs[s].lastOk \/ runs[s].plan[runs[s].idx].continueOnError]_vars

\* C6: the page-side executeActions attempts the actions in list order, one
\* result per attempted action; every result but the last is a success or
\* belongs to an action with continueOnError, and the call returns either
\* with a result for every action or right after a failure without
\* continueOnError.
C6_ResultOf(result, action) ==
  IF result.success
  THEN /\ action.type = "CLICK" => result.action = "clicked" /\ result.targetId = action.targetId
       /\ action.type = "SCROLL" => result.action = "scrolled"
       /\ action.type = "OPEN_URL" => result.action = "opened_url"
       /\ action.type = "WAIT" => result.action = "waited"
  ELSE /\ action.type \in {"CLICK", "TYPE"}
       /\ result.error = "Element not found"
       /\ result.targetId = action.targetId

C6_PartialReport ==
  LET n == Len(exec.results) IN
  /\ n <= Len(exec.actions)
  /\ \A i \in 1..n : C6_ResultOf(exec.results[i], exec.actions[i])
  /\ \A i \in 1..(n - 1) :
       exec.results[i].success \/ exec.actions[i].continueOnError
  /\ exec.pc = "running" => n = exec.idx - 1
  /\ exec.pc = "returned" =>
       \/ n = Len(exec.actions)
       \/ ~exec.results[n].success /\ ~exec.actions[n].continueOnError

C6_Witness ==
  /\ exec.pc = "returned"
  /\ Len(exec.results) = 2
  /\ Len(exec.actions) = 3
  /\ ~exec.results[1].success
  /\ ~exec.results[2].success

\* C7: after an OPEN_URL for intent I the next load-complete signal of the
\* page sets the resume timer, and the call that timer makes has intent I.
C7_ResumeSameIntent ==
  [][/\ (page.loading /\ ~page'.loading /\ page.navIntent # NULL)
          => timers' = Append(timers, page.navIntent)
     /\ (TimerFires /\ Head(timers) # NULL)
          => \E s \in Slots : Enters(s) /\ runs'[s].intent = Head(timers)]_vars

\* C8: an OPEN_URL action is never sent in an EXECUTE_ACTIONS message, and
\* right after the controller has performed it isExecuting is false and
\* pendingIntent is the intent of the run that issued it.
C8_OpenUrlByController ==
  /\ [](\A s \in Slots : runs[s].pc = "dispatch" =>
          runs[s].plan[runs[s].idx].type # "OPEN_URL")
  /\ [][\A s \in Slots :
          runs[s].pc = "navigate" /\ Ends(s) =>
            ~isExecuting' /\ pendingIntent' = runs[s].intent]_vars

\* C9: a call made for user input while isExecuting is true changes nothing
\* (no scrape, no resolve, no dispatch, pendingIntent and isExecuting as they
\* were); no call for user input is let in while isExecuting is true; the
\* call of the resume timer is let in whatever isExecuting is.
C9_ReentryDropped ==
  [][/\ dropped' # dropped =>
          /\ isExecuting
          /\ UNCHANGED <<pendingIntent, isExecuting, contextText, runs, timers,
                         page, doc>>
     /\ \A s \in Slots : Enters(s) /\ ~TimerFires => ~isExecuting
     /\ TimerFires => \E s \in Slots : Enters(s)]_vars

C9_Witness ==
  /\ dropped > 0
  /\ Cardinality({s \in Slots : runs[s].pc # "none"}) = 2

\* C10: a run whose resolve returns zero actions ends at once, having
\* dispatched nothing and navigated nowhere, with pendingIntent null and
\* isExecuting false.
C10_EmptyPlanEndsTask ==
  /\ [](\A s \in Slots :
          runs[s].pc \in {"prepare", "dispatch", "navigate", "navfail"}
            => Len(runs[s].plan) > 0)
  /\ [][\A s \in Slots :
          Ends(s) /\ runs[s].pc = "resolve" /\ contextText' = "Task complete"
            => /\ pendingIntent' = NULL
               /\ ~isExecuting'
               /\ UNCHANGED <<page, doc>>]_vars

C10_Witness ==
  /\ contextText = "Task complete"
  /\ pendingIntent = NULL
  /\ ~isExecuting
  /\ \A s \in Slots : runs[s].pc = "none"

\* C11: when a step of a run throws into executeActions (the resolve request
\* or the navigation), the run ends in that very step with pendingIntent
\* null, isExecuting false and the status "Agent Error"; the call returns
\* normally (its finally schedules updateContext) and nothing else of the
\* controller, of the page or of another call is touched.
C11_ThrowEndsRun ==
  [][\A s \in Slots :
       /\ runs[s].pc = "navfail" /\ runs'[s].pc # "navfail" => Ends(s)
       /\ Ends(s) /\ (\/ runs[s].pc = "navfail"
                      \/ runs[s].pc = "resolve" /\ contextText' = "Agent Error")
            => /\ pendingIntent' = NULL
               /\ ~isExecuting'
               /\ contextText' = "Agent Error"
               /\ ctxPending'
               /\ UNCHANGED <<timers, dropped, page, doc>>
               /\ \A t \in Slots \ {s} : runs'[t] = runs[t]]_vars

C11_Witness ==
  /\ contextText = "Agent Error"
  /\ pendingIntent = NULL
  /\ ~isExecuting
  /\ ctxPending
  /\ \A s \in Slots : runs[s].pc = "none"

\* C12: an iteration of the page-side executor on a CLICK, TYPE, SELECT or
\* CHECK whose targetId no element of the document carries pushes the result
\* {success: false, error: "Element not found: <id>"}, works on no element
\* and does not throw; an iteration on a SCROLL or a WAIT pushes a success.
C12_Iterates == exec.pc = "running" /\ exec'.pc # "unloaded" /\ exec' # exec

C12_Carried(targetId) ==
  \E i \in 1..Len(doc) : doc[i].present /\ doc[i].attr = targetId

C12_ElementNotFound ==
  [][C12_Iterates =>
       LET action == exec.actions[exec.idx]
           n == Len(exec.results)
       IN /\ (action.type \in {"CLICK", "TYPE", "SELECT", "CHECK"}
                /\ ~C12_Carried(action.targetId))
               => /\ exec'.pc # "threw"
                  /\ Len(exec'.results) = n + 1
                  /\ ~exec'.results[n + 1].success
                  /\ exec'.results[n + 1].error = "Element not found"
                  /\ exec'.results[n + 1].targetId = action.targetId
                  /\ exec'.acted = exec.acted
          /\ action.type \in {"SCROLL", "WAIT"}
               => /\ Len(exec'.results) = n + 1
                  /\ exec'.results[n + 1].success]_vars

\* C13: right after a scan, whatever scans and DOM changes came before, every
\* id of the snapshot is carried by exactly one element of the document, the
\* one its record was built from, and querySelector finds that element.
C13_Scans ==
  /\ doc' = scrapeDOM(doc).doc
  /\ snapshot' = scrapeDOM(doc).elements

C13_IdLocatesElement ==
  [][C13_Scans =>
       \A k \in 1..Len(snapshot') :
         /\ {i \in 1..Len(doc') : doc'[i].present /\ doc'[i].attr = snapshot'[k].id}
              = {snapshot'[k].elem}
         /\ querySelector(doc', snapshot'[k].id) = snapshot'[k].elem]_vars

\* Element e is one of the records of the list.
Holds(elements, e) == \E i \in 1..Len(elements) : elements[i] = e

\* The request was answered by the deterministic fallback alone.
FallbackAnswered ==
  /\ analysis.pc = "responded"
  /\ analysis.status = 200
  /\ ~analysis.openAIKey

\* C14: the fallback plan for "search for wireless mouse" on a snapshot that
\* holds the input labelled "search" and the button labelled "go" is TYPE
\* "wireless mouse" into the input, then CLICK on the button, and no more.
C14_SearchPlan ==
  (/\ FallbackAnswered
   /\ analysis.intent = SearchIntent
   /\ Holds(analysis.elements, SearchInput)
   /\ Holds(analysis.elements, GoButton))
    => analysis.actions =
         <<PlanType(SearchInput, <<"w", "i", "r", "e", "l", "e", "s", "s", " ", "m", "o", "u", "s", "e">>), PlanClick(GoButton)>>

\* C15: the intent "click on the Submit button" fires the click rule alone,
\* with X = "submit button"; the snapshot holds an enabled button whose
\* label is a word of X.
C15_X == <<"s", "u", "b", "m", "i", "t", " ", "b", "u", "t", "t", "o", "n">>

C15_Buttons ==
  {e \in RecordPool :
     /\ e.type = "button" /\ ~e.disabled
     /\ \E k \in 1..Len(split(C15_X)) : split(C15_X)[k] = toLowerCase(e.label)}

C15_Given ==
  /\ FallbackAnswered
  /\ analysis.intent = ClickIntent
  /\ \E b \in C15_Buttons : Holds(analysis.elements, b)

\* C15 as stated: the plan is exactly one CLICK on that button.
C15_ClickTargetsButton ==
  C15_Given =>
    \E b \in C15_Buttons :
      Holds(analysis.elements, b) /\ analysis.actions = <<PlanClick(b)>>

\* C15 amended: the plan is exactly one CLICK, on the best match of X: an
\* enabled element of the snapshot that no enabled element outscores and no
\* earlier enabled element equals in score (so it is that button only when
\* no other element scores as high).
C15_ClickTargetsBest ==
  C15_Given =>
    LET elements == analysis.elements
        Score(i) == ElementScore(elements[i], C15_X, ClickTypes)
    IN /\ Len(analysis.actions) = 1
       /\ analysis.actions[1].type = "CLICK"
       /\ \E i \in 1..Len(elements) :
            /\ analysis.actions[1].targetId = elements[i].id
            /\ ~elements[i].disabled
            /\ \A j \in 1..Len(elements) :
                 ~elements[j].disabled =>
                   /\ Score(j) <= Score(i)
                   /\ j < i => Score(j) < Score(i)

C15_Witness ==
  /\ C15_Given
  /\ Len(analysis.elements) = 2
  /\ analysis.elements[2] = SubmitButton
  /\ analysis.actions = <<PlanClick(SubmitButton)>>

\* C16: every action of a fallback plan targets an element of the type set
\* of the rule that emitted it: the click rule a button, link or interactive
\* element, the type rule an input or textarea, the login rule a button or
\* link, the search rule an input with its TYPE and a button with its CLICK.
\* Each of the four intents fires one rule alone.
C16_TypeOf(targetId) == (CHOOSE e \in RecordPool : e.id = targetId).type

C16_RuleTypes(intent, action) ==
  CASE intent = ClickIntent -> ClickTypes
    [] intent = TypeIntent -> TypeTypes
    [] intent = LoginIntent -> LoginTypes
    [] intent = SearchIntent ->
         IF action.type = "TYPE" THEN SearchInputTypes ELSE SearchButtonTypes

C16_TargetsOfRuleType ==
  (/\ FallbackAnswered
   /\ analysis.intent \in {ClickIntent, TypeIntent, LoginIntent, SearchIntent})
    => \A k \in 1..Len(analysis.actions) :
         C16_TypeOf(analysis.actions[k].targetId)
           \in C16_RuleTypes(analysis.intent, analysis.actions[k])

\* C17: findBestMatch returns null exactly when no enabled element has a
\* positive score, else the first element in list order among the enabled
\* ones of maximal score, never a disabled one.  The score (in halves) is
\* the sum of the lengths of the query words found in the lowercase label,
\* times 1.5 for a preferred type, times 2 when the lowercase label equals
\* the query.
C17_Found(label, word) ==
  \E i \in 1..(Len(label) + 1), j \in 0..Len(label) : SubSeq(label, i, j) = word

RECURSIVE C17_Sum(_, _)
C17_Sum(label, words) ==
  IF words = <<>> THEN 0
  ELSE C17_Sum(label, Tail(words))
       + (IF C17_Found(label, Head(words)) THEN Len(Head(words)) ELSE 0)

C17_Score(e) ==
  LET label == toLowerCase(e.label)
      sum == 2 * C17_Sum(label, split(toLowerCase(analysis.query)))
      typed == IF e.type \in analysis.preferredTypes THEN (3 * sum) \div 2 ELSE sum
  IN IF label = analysis.query THEN 2 * typed ELSE typed

C17_BestMatch ==
  analysis.pc = "matched" =>
    LET elements == analysis.elements
        Enabled(i) == ~elements[i].disabled
    IN /\ analysis.result = NoElement
            <=> ~\E i \in 1..Len(elements) : Enabled(i) /\ C17_Score(elements[i]) > 0
       /\ analysis.result # NoElement =>
            \E i \in 1..Len(elements) :
              /\ analysis.result = elements[i]
              /\ Enabled(i)
              /\ \A j \in 1..Len(elements) :
                   Enabled(j) =>
                     /\ C17_Score(elements[j]) <= C17_Score(elements[i])
                     /\ j < i => C17_Score(elements[j]) < C17_Score(elements[i])

C17_Witness ==
  /\ analysis.pc = "matched"
  /\ Len(analysis.elements) = 2
  /\ ~analysis.elements[1].disabled /\ ~analysis.elements[2].disabled
  /\ C17_Score(analysis.elements[1]) = C17_Score(analysis.elements[2])
  /\ C17_Score(analysis.elements[1]) > 0
  /\ analysis.result = analysis.elements[1]

\* C18: a request with an intent is always answered with a plan (status
\* 200); without an API key, when the service call throws, when the reply
\* holds no "[" with a "]" behind it, or when the text from the first "[" to
\* the last "]" is no JSON array, the plan is the fallback's plan for the
\* same intent and snapshot.
\* The JSON texts of at most MaxReplyLen tokens, built up from the grammar
\* value = {} | array, array = [ ] | [ value {, value} ].
C18_Short(S) == {t \in S : Len(t) <= MaxReplyLen}

RECURSIVE C18_Values(_)
RECURSIVE C18_Lists(_)
C18_Values(depth) ==
  IF depth = 0 THEN {<<"{}">>, <<"[", "]">>}
  ELSE LET values == C18_Values(depth - 1)
           lists == C18_Lists(depth - 1)
       IN values \cup C18_Short({<<"[">> \o l \o <<"]">> : l \in lists})

C18_Lists(depth) ==
  IF depth = 0 THEN C18_Values(0)
  ELSE LET values == C18_Values(depth)
           lists == C18_Lists(depth - 1)
       IN values \cup lists
            \cup C18_Short({l \o <<",">> \o v : l \in lists, v \in values})

C18_Arrays == {t \in C18_Values(MaxReplyLen) : Head(t) = "["}

C18_Bracketed(response) ==
  \E i, j \in 1..Len(response) : i < j /\ response[i] = "[" /\ response[j] = "]"

C18_Text(response) ==
  LET i == CHOOSE i \in 1..Len(response) :
             response[i] = "[" /\ \A k \in 1..(i - 1) : response[k] # "["
      j == CHOOSE j \in 1..Len(response) :
             response[j] = "]" /\ \A k \in (j + 1)..Len(response) : response[k] # "]"
  IN SubSeq(response, i, j)

C18_ServiceDeclined ==
  \/ ~analysis.openAIKey
  \/ analysis.service.throws
  \/ ~C18_Bracketed(analysis.service.response)
  \/ C18_Text(analysis.service.response) \notin C18_Arrays

C18_FallsBack ==
  (analysis.pc = "responded" /\ analysis.intent # <<>>) =>
    /\ analysis.status = 200
    /\ C18_ServiceDeclined =>
         analysis.actions = generateDemoActions(analysis.intent, analysis.elements)

C18_Witness ==
  /\ analysis.pc = "responded"
  /\ analysis.openAIKey
  /\ analysis.service.response = <<"[", "x", "]">>
  /\ analysis.actions # <<>>

\* C19: a SCRAPE_DOM or EXECUTE_ACTIONS message goes to the tab only after a
\* readiness check of the same call in which the URL of the tab was not a
\* restricted one and either the PING was answered (the content script was
\* listening) or, the PING unanswered, one injection put the script there:
\* a call scrapes only in the step of such a check, and dispatches only with
\* isReady set by such a check.
C19_CheckPassed ==
  /\ ~page.restricted
  /\ page.cs \/ (~page.cs /\ page'.cs)

C19_ReadyBeforeMessage ==
  /\ [](\A s \in Slots : runs[s].pc = "dispatch" => runs[s].isReady)
  /\ [][\A s \in Slots :
          /\ (runs[s].pc = "scrape" /\ runs'[s].ids = "current") => C19_CheckPassed
          /\ (runs[s].pc = "prepare" /\ runs'[s].pc = "dispatch") => C19_CheckPassed
          /\ (runs[s].pc # "prepare" /\ Active(runs[s]) /\ Active(runs'[s]))
               => runs'[s].isReady = runs[s].isReady]_vars

C19_Witness ==
  /\ page.loading
  /\ page.cs
  /\ \E s \in Slots : /\ runs[s].pc = "dispatch"
                       /\ runs[s].isReady
                       /\ runs[s].ids = "current"

\* C20: a run that found the active page restricted leaves nothing to resume:
\* when it ends, having skipped the actions of its plan, pendingIntent is
\* null, so that no later load-complete signal (the listener resumes whenever
\* pendingIntent is set) runs the intent again before the user asks anew.
C20_NoResumeOnRestricted ==
  [][\A s \in Slots :
       (Ends(s) /\ runs[s].pc = "prepare" /\ page.restricted /\ ~page.loading)
         => pendingIntent' = NULL]_vars

\* C21: a load-complete signal of a tab other than the one the pending task
\* navigated does not trigger a resume: a resume timer is set only by the
\* step in which the load of the task's own tab completes.
C21_OtherTabNoResume ==
  [][Len(timers') > Len(timers) => (page.loading /\ ~page'.loading)]_vars

\* ------------------------------------------- the indexer on styled elements
\* content_script.js 32-147 with the computed style, the box and the label
\* sources of each candidate.  A DOM value that may be missing is a record:
\* no value (null, undefined), a string, or a number (li.value, meter.value).
Absent == [is |-> "absent", text |-> <<>>]
Str(text) == [is |-> "string", text |-> text]
Num == [is |-> "number", text |-> <<>>]

MaxScans == 2       \* SCRAPE_DOM messages one page answers

\* window.innerWidth and window.innerHeight of the page.
Window == [innerWidth |-> 300, innerHeight |-> 200]

\* String.prototype.trim: white space off both ends.
WhiteSpace == {" ", "\t", "\n"}

RECURSIVE trimStart(_)
trimStart(str) ==
  IF str # <<>> /\ Head(str) \in WhiteSpace THEN trimStart(Tail(str)) ELSE str

RECURSIVE trimEnd(_)
trimEnd(str) ==
  IF str # <<>> /\ str[Len(str)] \in WhiteSpace
  THEN trimEnd(SubSeq(str, 1, Len(str) - 1)) ELSE str

trim(str) == trimEnd(trimStart(str))

\* String.prototype.substring(0, n).
substring(str, n) == IF Len(str) <= n THEN str ELSE SubSeq(str, 1, n)

\* isElementVisible, lines 32-56; element.rect is getBoundingClientRect.
isElementVisible_always(element, window) == TRUE
isElementVisible_untagged(element, window) == element.attr = 0
isElementVisible(element, window) ==
  IF \/ element.display = "none"
     \/ element.visibility = "hidden"
     \/ element.opacity = "0"
  THEN FALSE
  ELSE IF element.rect.width = 0 \/ element.rect.height = 0
  THEN FALSE
  ELSE /\ element.rect.top < window.innerHeight + 100
       /\ element.rect.top + element.rect.height > -100
       /\ element.rect.left < window.innerWidth + 100
       /\ element.rect.left + element.rect.width > -100

\* line 60: type?.toLowerCase() guards against null and undefined only.  The
\* type property of a form is the control of the form that is named "type";
\* an element has no toLowerCase method and the call throws a TypeError.
\* typeOf is what typeof element.type gives.
TypeThrows(element) == element.typeOf = "object"

\* getElementType, lines 58-78; tag is tagName in lower case, type the type
\* property in lower case ("" when there is none).
getElementType(element) ==
  IF element.tag = "a" THEN "link"
  ELSE IF element.tag = "button" \/ element.role = "button" THEN "button"
  ELSE IF element.tag = "input"
  THEN IF element.type \in {"submit", "button"} THEN "button"
       ELSE IF element.type = "checkbox" THEN "checkbox"
       ELSE IF element.type = "radio" THEN "radio"
       ELSE "input"
  ELSE IF element.tag = "select" THEN "select"
  ELSE IF element.tag = "textarea" THEN "textarea"
  ELSE IF element.role = "textbox" THEN "input"
  ELSE IF element.role = "menuitem" THEN "menuitem"
  ELSE IF element.role = "tab" THEN "tab"
  ELSE "interactive"

\* getElementLabel, lines 82-90: the array of sources is built first;
\* attributes are aria-label, title, placeholder, alt and name in this order.
LabelSources(element) ==
  element.attributes
    \o << IF element.innerText.is = "string"
          THEN Str(substring(trim(element.innerText.text), 100))
          ELSE Absent,
          IF element.value.is = "string"
          THEN Str(substring(element.value.text, 50))
          ELSE Absent >>

\* line 89: value?.substring guards against null and undefined only; a
\* number has no substring method and the call throws a TypeError.
LabelThrows(element) == element.value.is = "number"

\* lines 92-98: the first source with something else than white space,
\* trimmed; null when there is none.
RECURSIVE FirstLabel(_, _)
FirstLabel(sources, k) ==
  IF k > Len(sources) THEN Absent
  ELSE IF sources[k].is = "string" /\ Len(trim(sources[k].text)) > 0
  THEN Str(trim(sources[k].text))
  ELSE FirstLabel(sources, k + 1)

getElementLabel(element) == FirstLabel(LabelSources(element), 1)

\* line 120: the element is left out of the list.
Skipped_never(label) == FALSE
Skipped(label) == label.is # "string" \/ label.text = <<>>

\* Math.round(a + b / 2) on whole numbers: halves go up.
RoundHalf(a, b) == (2 * a + b + 1) \div 2

\* lines 122-134: the ElementRecord (id n stands for "agent-<n>"; elem, the
\* place of the element in the document, is not part of the record).
ElementRecord(agentId, element, label, i) ==
  [id |-> agentId, type |-> getElementType(element), tag |-> element.tag,
   label |-> label.text,
   position |-> [x |-> RoundHalf(element.rect.left, element.rect.width),
                 y |-> RoundHalf(element.rect.top, element.rect.height)],
   elem |-> i]

\* scrapeDOM, lines 101-147, the forEach from element i on.  An exception
\* of getElementLabel or getElementType leaves the function: nothing is
\* returned, the ids written so far stay.
RECURSIVE ScanStyledFrom(_, _, _, _, _)
ScanStyledFrom(d, window, i, counter, elements) ==
  IF i > Len(d)
  THEN [doc |-> d, agentIdCounter |-> counter, elements |-> elements, threw |-> FALSE]
  ELSE IF ~isElementVisible(d[i], window)
  THEN ScanStyledFrom(d, window, i + 1, counter, elements)
  ELSE LET agentId == counter + 1
           d2 == [d EXCEPT ![i].attr = agentId]
           label == getElementLabel(d[i])
       IN IF LabelThrows(d[i])
          THEN [doc |-> d2, agentIdCounter |-> agentId, elements |-> elements,
                threw |-> TRUE]
          ELSE IF Skipped(label)
          THEN ScanStyledFrom(d2, window, i + 1, agentId, elements)
          ELSE IF TypeThrows(d[i])
          THEN [doc |-> d2, agentIdCounter |-> agentId, elements |-> elements,
                threw |-> TRUE]
          ELSE ScanStyledFrom(d2, window, i + 1, agentId,
                              Append(elements, ElementRecord(agentId, d[i], label, i)))

scrapeDOM_styled(d, window) == ScanStyledFrom(d, window, 1, 0, <<>>)

\* The candidates of the documents: what the element is and where its label
\* comes from ...
NoAttributes == <<Absent, Absent, Absent, Absent, Absent>>

Kinds ==
  { \* <a href>  Go </a>
    [tag |-> "a", type |-> "", typeOf |-> "undefined", role |-> "", attributes |-> NoAttributes,
     innerText |-> Str(<<" ", "G", "o", " ">>), value |-> Absent],
    \* <input type=submit name=q value=Go>
    [tag |-> "input", type |-> "submit", typeOf |-> "string", role |-> "",
     attributes |-> <<Absent, Absent, Absent, Absent, Str(<<"q">>)>>,
     innerText |-> Str(<<>>), value |-> Str(<<"G", "o">>)],
    \* <input type=text placeholder="  ">: nothing to label it with
    [tag |-> "input", type |-> "text", typeOf |-> "string", role |-> "",
     attributes |-> <<Absent, Absent, Str(<<" ", " ">>), Absent, Absent>>,
     innerText |-> Str(<<>>), value |-> Str(<<>>)],
    \* <input type=checkbox aria-label="" title="ok ">
    [tag |-> "input", type |-> "checkbox", typeOf |-> "string", role |-> "",
     attributes |-> <<Str(<<>>), Str(<<"o", "k", " ">>), Absent, Absent, Absent>>,
     innerText |-> Str(<<>>), value |-> Str(<<"o", "n">>)],
    \* <div role=button> with a line break as its only text
    [tag |-> "div", type |-> "", typeOf |-> "undefined", role |-> "button", attributes |-> NoAttributes,
     innerText |-> Str(<<"\n">>), value |-> Absent],
    \* <li role=menuitem>Open</li>: li.value is a number
    [tag |-> "li", type |-> "", typeOf |-> "undefined", role |-> "menuitem", attributes |-> NoAttributes,
     innerText |-> Str(<<"O", "p", "e", "n">>), value |-> Num] }

\* ... its computed style ...
Styles ==
  { [display |-> "block", visibility |-> "visible", opacity |-> "1"],
    [display |-> "none", visibility |-> "visible", opacity |-> "1"],
    [display |-> "block", visibility |-> "hidden", opacity |-> "1"],
    [display |-> "block", visibility |-> "visible", opacity |-> "0"],
    [display |-> "block", visibility |-> "visible", opacity |-> "0.5"] }

\* ... and its box: inside the viewport, without width, without height, left
\* of the 100px margin and just reaching it, under it and just reaching it.
Rects ==
  { [left |-> 10, top |-> 10, width |-> 51, height |-> 20],
    [left |-> 10, top |-> 10, width |-> 0, height |-> 20],
    [left |-> 10, top |-> 10, width |-> 50, height |-> 0],
    [left |-> -150, top |-> 10, width |-> 50, height |-> 20],
    [left |-> -149, top |-> 10, width |-> 50, height |-> 20],
    [left |-> 10, top |-> Window.innerHeight + 100, width |-> 50, height |-> 20],
    [left |-> 10, top |-> Window.innerHeight + 99, width |-> 50, height |-> 20] }

StyledElement(kind, style, rect) ==
  [tag |-> kind.tag, type |-> kind.type, typeOf |-> kind.typeOf, role |-> kind.role,
   attributes |-> kind.attributes, innerText |-> kind.innerText,
   value |-> kind.value, display |-> style.display,
   visibility |-> style.visibility, opacity |-> style.opacity, rect |-> rect,
   attr |-> 0]

StyledElements ==
  {StyledElement(kind, style, rect) : kind \in Kinds, style \in Styles, rect \in Rects}

\* A static document of NumElems candidates gets SCRAPE_DOM messages.
InitIndex ==
  /\ PageVarsIdle
  /\ snapshot = <<>>
  /\ doc \in [1..NumElems -> StyledElements]

\* The listener of content_script.js 353-357 answers SCRAPE_DOM, or
\* scrapeDOM throws and no answer is sent.
ScanStyled ==
  /\ Len(responses) < MaxScans
  /\ LET dom == scrapeDOM_styled(doc, Window) IN
       /\ doc' = dom.doc
       /\ IF dom.threw
          THEN UNCHANGED <<snapshot, responses>>
          ELSE /\ snapshot' = dom.elements
               /\ responses' = Append(responses, [success |-> TRUE, data |-> dom.elements])
  /\ UNCHANGED <<pendingIntent, isExecuting, contextText, runs, timers, dropped,
                 page, exec, ctxPending, analysis, restores>>
  /\ UNCHANGED suspended

NextIndex == ScanStyled

SpecIndex == InitIndex /\ [][NextIndex]_vars

\* C22: every ElementRecord of a snapshot has a non-empty label, and no two
\* ElementRecords of one snapshot have the same id.
C22_LabelsAndIds ==
  \A k \in 1..Len(responses) :
    LET elements == responses[k].data IN
    /\ \A i \in 1..Len(elements) : Len(elements[i].label) > 0
    /\ \A i, j \in 1..Len(elements) : elements[i].id = elements[j].id => i = j

\* A snapshot of two records, one labelled by an attribute and one by its
\* trimmed text.
C22_Witness ==
  /\ Len(responses) > 0
  /\ Len(snapshot) = 2
  /\ snapshot[1].label = <<"o", "k">>
  /\ snapshot[2].label = <<"G", "o">>

\* C23: a snapshot contains a candidate only if its display is not none, its
\* visibility is not hidden, its opacity is not 0, its box has a width and a
\* height other than zero and the box is not entirely outside the viewport
\* extended by 100px on every side; and every labeled candidate of which all
\* this is true is in the snapshot.
C23_OpacityTenths(opacity) ==
  CASE opacity = "0" -> 0 [] opacity = "0.5" -> 5 [] opacity = "1" -> 10

\* The stretches from lo1 to hi1 and from lo2 to hi2 have a part in common.
C23_Overlap(lo1, hi1, lo2, hi2) ==
  (IF lo1 > lo2 THEN lo1 ELSE lo2) < (IF hi1 < hi2 THEN hi1 ELSE hi2)

C23_Shown(e) ==
  /\ e.display # "none"
  /\ e.visibility # "hidden"
  /\ C23_OpacityTenths(e.opacity) # 0
  /\ e.rect.width * e.rect.height # 0
  /\ C23_Overlap(e.rect.left, e.rect.left + e.rect.width,
                 0 - 100, Window.innerWidth + 100)
  /\ C23_Overlap(e.rect.top, e.rect.top + e.rect.height,
                 0 - 100, Window.innerHeight + 100)

C23_Labeled(e) ==
  \E source \in {e.attributes[k] : k \in 1..Len(e.attributes)}
                  \cup {e.innerText, e.value} :
    /\ source.is = "string"
    /\ \E p \in 1..Len(source.text) : source.text[p] \notin WhiteSpace

C23_OnlyTheShown ==
  \A k \in 1..Len(responses) : \A i \in 1..Len(doc) :
    (\E r \in 1..Len(responses[k].data) : responses[k].data[r].elem = i)
      <=> (C23_Shown(doc[i]) /\ C23_Labeled(doc[i]))

\* Of two labeled links the one that reaches a pixel into the margin is in
\* the snapshot, the one that ends where the margin begins is not.
C23_Witness ==
  /\ Len(responses) > 0
  /\ Len(snapshot) = 1
  /\ snapshot[1].elem = 2
  /\ doc[1].tag = "a" /\ doc[1].display = "block" /\ doc[1].opacity = "0.5"
  /\ doc[1].rect.left = -150
  /\ doc[2].rect.left = -149

\* C24: two scans of the same static document, nothing but the id attributes
\* written between them, return element lists of the same length whose
\* records agree place by place on type, label and position.
C24_SameRecords ==
  \A k \in 1..(Len(responses) - 1) :
    LET first == responses[k].data
        second == responses[k + 1].data
    IN /\ Len(first) = Len(second)
       /\ \A i \in 1..Len(first) :
            /\ first[i].type = second[i].type
            /\ first[i].label = second[i].label
            /\ first[i].position = second[i].position

\* The second scan has answered, on elements that carry the ids of the first.
C24_Witness ==
  /\ Len(responses) = 2
  /\ Len(responses[2].data) = 2
  /\ responses[2].data[1].position.x = 36
  /\ \A i \in 1..Len(doc) : doc[i].attr # 0

\* ------------------------------------------------ OPEN_URL in the controller
\* sidepanel.js 508-515 with the value of the action.
MaxUrlParts == 3    \* pieces an action's value is put together from

UrlParts ==
  { <<"h", "t", "t", "p">>, <<"h", "t", "t", "p", "s">>, <<"f", "t", "p">>,
    <<"m", "a", "i", "l", "t", "o", ":">>, <<":", "/", "/">>,
    <<"b", "i", "n", ".", "o", "r", "g">>, <<"a", ".", "i", "o">> }

RECURSIVE Concat(_)
Concat(parts) == IF parts = <<>> THEN <<>> ELSE Head(parts) \o Concat(Tail(parts))

\* The values of the OPEN_URL actions of the plans.
UrlValues == {Concat(parts) : parts \in SeqsUpTo(UrlParts, MaxUrlParts)}

OpenUrlTo(value) ==
  [type |-> "OPEN_URL", targetId |-> 0, continueOnError |-> FALSE, value |-> value]

\* String.prototype.startsWith.
startsWith(str, w) == StartsAt(str, 1, w)

\* lines 509-510: the url handed to chrome.tabs.update.
NavigationUrl(value) ==
  IF ~startsWith(value, <<"h", "t", "t", "p">>)
  THEN <<"h", "t", "t", "p", "s", ":", "/", "/">> \o value
  ELSE value

\* A run stands at the head of its loop with an OPEN_URL action next.
InitOpenUrl ==
  /\ pendingIntent = "I"
  /\ isExecuting = TRUE
  /\ contextText = "Executing actions..."
  /\ \E value \in UrlValues :
       runs = [s \in 1..MaxRuns |->
                 IF s = 1 THEN [NoRun EXCEPT !.pc = "loop", !.intent = "I",
                                             !.plan = <<OpenUrlTo(value)>>,
                                             !.idx = 1, !.isReady = TRUE]
                 ELSE NoRun]
  /\ timers = <<>>
  /\ dropped = 0
  /\ ctxPending = FALSE
  /\ page = [restricted |-> FALSE, cs |-> TRUE, loading |-> FALSE,
             navIntent |-> NULL, url |-> <<>>]
  /\ doc = FreshDoc
  /\ exec = NoExec
  /\ snapshot = <<>>
  /\ analysis = NoAnalysis
  /\ responses = <<>>
  /\ restores = <<>>
  /\ suspended = NoTask

\* lines 508-511: chrome.tabs.update(tab.id, {url}) is called.
TabsUpdate ==
  /\ runs[1].pc = "loop"
  /\ page' = [restricted |-> FALSE, cs |-> FALSE, loading |-> TRUE,
              navIntent |-> runs[1].intent,
              url |-> NavigationUrl(runs[1].plan[runs[1].idx].value)]
  /\ runs' = [runs EXCEPT ![1].pc = "navigate"]
  /\ doc' = FreshDoc
  /\ UNCHANGED <<pendingIntent, isExecuting, contextText, timers, dropped, exec,
                 ctxPending, snapshot, analysis, responses, restores>>
  /\ UNCHANGED suspended

\* lines 512-514 and finally: the call returns.
TabsUpdateReturns ==
  /\ runs[1].pc = "navigate"
  /\ contextText' = "Navigating..."
  /\ runs' = [runs EXCEPT ![1].pc = "returned"]
  /\ isExecuting' = FALSE
  /\ ctxPending' = TRUE
  /\ UNCHANGED <<pendingIntent, timers, dropped, page, doc, exec, snapshot,
                 analysis, responses, restores>>
  /\ UNCHANGED suspended

NextOpenUrl ==
  \/ TabsUpdate
  \/ TabsUpdateReturns

SpecOpenUrl == InitOpenUrl /\ [][NextOpenUrl]_vars

\* C25: the URL an OPEN_URL action navigates to is the action's value as it
\* is when the value carries a URL scheme (letters, digits, +, - or . after a
\* first letter, then a colon), and the value with https:// put before it
\* when it carries none, host names that begin with http included.
C25_SchemeChars ==
  {LowerCase[k] : k \in 1..Len(LowerCase)} \cup {UpperCase[k] : k \in 1..Len(UpperCase)}
    \cup {"0", "1", "2", "3", "4", "5", "6", "7", "8", "9", "+", "-", "."}

C25_HasScheme(value) ==
  \E p \in 2..Len(value) :
    /\ value[p] = ":"
    /\ \A q \in 1..(p - 1) : value[q] \in C25_SchemeChars
    /\ value[1] \notin {"0", "1", "2", "3", "4", "5", "6", "7", "8", "9", "+", "-", "."}

C25_SchemeAdded ==
  runs[1].pc \in {"navigate", "returned"} =>
    LET value == runs[1].plan[1].value IN
    page.url = IF C25_HasScheme(value) THEN value
               ELSE <<"h", "t", "t", "p", "s", ":", "/", "/">> \o value

\* ------------------------------------------ the executor and its effects
\* content_script.js 153-283 with what the actions do to the elements: the
\* value, the focus, the inline outline and transition, the status bar.
MaxEffects == 2     \* actions of one EXECUTE_ACTIONS message

\* options of an action: the fields it has and their values.
NoOptions == [fields |-> {}, duration |-> 0, durationMs |-> 0]
Duration(ms) == [fields |-> {"duration"}, duration |-> ms, durationMs |-> 0]
DurationMs(ms) == [fields |-> {"durationMs"}, duration |-> 0, durationMs |-> ms]

TypeInto(t, value) ==
  [type |-> "TYPE", targetId |-> t, continueOnError |-> FALSE, value |-> value,
   options |-> NoOptions]
ClickOn(t) ==
  [type |-> "CLICK", targetId |-> t, continueOnError |-> FALSE, value |-> <<>>,
   options |-> NoOptions]
WaitFor(options) ==
  [type |-> "WAIT", targetId |-> 0, continueOnError |-> FALSE, value |-> <<>>,
   options |-> options]
Hover(t) ==
  [type |-> "HOVER", targetId |-> t, continueOnError |-> FALSE, value |-> <<>>,
   options |-> NoOptions]

\* An element of the page: style is its inline style; selection is FALSE
\* where selectionStart does not apply (an input that holds no text).
FormElement(tag, type, readOnly, editable, value, innerText, outline, transition) ==
  [present |-> TRUE, attr |-> 0, tag |-> tag, type |-> type, readOnly |-> readOnly,
   isContentEditable |-> editable, value |-> value, innerText |-> innerText,
   selection |-> tag = "TEXTAREA" \/ (tag = "INPUT" /\ type = "text"),
   selectionStart |-> Len(value), selectionEnd |-> Len(value),
   style |-> [outline |-> outline, transition |-> transition]]

TextInput ==
  FormElement("INPUT", "text", FALSE, FALSE, <<"a", "b">>, <<>>, "", "")
ReadOnlyInput ==
  FormElement("INPUT", "text", TRUE, FALSE, <<"a", "b">>, <<>>, "", "")
CheckBox ==
  FormElement("INPUT", "checkbox", FALSE, FALSE, <<"o", "n">>, <<>>, "", "")
TextArea ==
  FormElement("TEXTAREA", "textarea", FALSE, FALSE, <<>>, <<>>, "1px solid red", "all 1s")
EditableDiv ==
  FormElement("DIV", "", FALSE, TRUE, <<>>, <<"a", "b">>, "", "")
Button ==
  FormElement("BUTTON", "submit", FALSE, FALSE, <<>>, <<"G", "o">>, "", "")

\* highlightElement, lines 272-283: the style is saved and overwritten, and
\* a timer is set that writes the saved values back.
highlightElement(d, element, timeouts) ==
  [doc |-> [d EXCEPT ![element].style =
                       [outline |-> "3px solid #7c3aed",
                        transition |-> "outline 0.2s ease"]],
   restores |-> Append(timeouts,
                       [element |-> element,
                        originalOutline |-> d[element].style.outline,
                        originalTransition |-> d[element].style.transition])]

\* element.focus(): the element becomes document.activeElement when it can
\* take the focus.
Focusable(e) == e.tag \in {"INPUT", "TEXTAREA", "BUTTON"} \/ e.isContentEditable

focus(active, d, element) == IF Focusable(d[element]) THEN element ELSE active

\* document.execCommand('insertText', false, text): the text replaces the
\* selection of the focused element when that element takes typed text;
\* the command is not enabled otherwise, it returns false and inserts nothing.
TakesText(e) ==
  \/ e.isContentEditable
  \/ e.selection /\ ~e.readOnly

InsertAtSelection(str, from, to, text) ==
  SubSeq(str, 1, from) \o text \o SubSeq(str, to + 1, Len(str))

execCommand(d, active, text) ==
  IF active = 0 \/ ~TakesText(d[active]) THEN d
  ELSE IF d[active].isContentEditable
  THEN [d EXCEPT ![active].innerText = d[active].innerText \o text]
  ELSE [d EXCEPT ![active].value =
                    InsertAtSelection(d[active].value, d[active].selectionStart,
                                      d[active].selectionEnd, text),
                 ![active].selectionStart = d[active].selectionStart + Len(text),
                 ![active].selectionEnd = d[active].selectionStart + Len(text)]

\* element.value = text: the property is set whatever the element is, the
\* selection goes to the end.
SetValue(d, element, text) ==
  [d EXCEPT ![element].value = text, ![element].selectionStart = Len(text),
            ![element].selectionEnd = Len(text)]

\* lines 180-185: the present content is cleared.
ClearContent(d, element) ==
  IF d[element].tag \in {"INPUT", "TEXTAREA"} THEN SetValue(d, element, <<>>)
  ELSE IF d[element].isContentEditable THEN [d EXCEPT ![element].innerText = <<>>]
  ELSE d

\* lines 187-193: execCommand, and the assignment only when it has thrown.
InsertText(d, active, element, text, thrown) ==
  IF thrown THEN SetValue(d, element, text) ELSE execCommand(d, active, text)

\* line 214: options?.duration || 1000.
WaitDuration(options) ==
  IF "duration" \in options.fields /\ options.duration # 0
  THEN options.duration ELSE 1000

\* No ActionResult yet.
NoResult ==
  [success |-> FALSE, action |-> "none", targetId |-> 0, value |-> <<>>,
   duration |-> 0, error |-> ""]

\* executeAction, lines 154-176 and 213-215: the action up to its first
\* await (pc "sleeping", ms the time asked for) or to its return (pc "done").
ActionBegins(action, d) ==
  LET element == querySelector(d, action.targetId) IN
  IF element = 0 /\ ~NeedsNoTarget(action.type)
  THEN [pc |-> "done", ms |-> 0, shown |-> FALSE,
        result |-> [success |-> FALSE, action |-> "none", targetId |-> action.targetId,
                    value |-> <<>>, duration |-> 0, error |-> "Element not found"]]
  ELSE CASE action.type \in {"CLICK", "TYPE"} ->
              [pc |-> "sleeping", ms |-> 200, shown |-> TRUE, result |-> NoResult]
         [] action.type = "WAIT" ->
              [pc |-> "sleeping", ms |-> WaitDuration(action.options), shown |-> TRUE,
               result |-> NoResult]
         [] OTHER ->
              [pc |-> "done", ms |-> 0, shown |-> TRUE,
               result |-> [success |-> FALSE, action |-> "none",
                           targetId |-> action.targetId, value |-> <<>>,
                           duration |-> 0, error |-> "Unknown action type"]]

\* executeAction, lines 170-172, 177-201 and 216: the action after its
\* sleep; thrown tells whether execCommand throws.
ActionEnds(action, d, active, timeouts, thrown) ==
  LET element == querySelector(d, action.targetId)
      lit == highlightElement(d, element, timeouts)
  IN CASE action.type = "CLICK" ->
            [doc |-> lit.doc, restores |-> lit.restores, activeElement |-> active,
             result |-> [success |-> TRUE, action |-> "clicked",
                         targetId |-> action.targetId, value |-> <<>>,
                         duration |-> 0, error |-> ""]]
       [] action.type = "TYPE" ->
            LET focused == focus(active, lit.doc, element)
                cleared == ClearContent(lit.doc, element)
            IN [doc |-> InsertText(cleared, focused, element, action.value, thrown),
                restores |-> lit.restores, activeElement |-> focused,
                result |-> [success |-> TRUE, action |-> "typed",
                            targetId |-> action.targetId, value |-> action.value,
                            duration |-> 0, error |-> ""]]
       [] action.type = "WAIT" ->
            [doc |-> d, restores |-> timeouts, activeElement |-> active,
             result |-> [success |-> TRUE, action |-> "waited", targetId |-> 0,
                         value |-> <<>>, duration |-> WaitDuration(action.options),
                         error |-> ""]]

\* executeActions, lines 250-261: the result is pushed, then the loop breaks
\* and the function returns, or it sleeps 300 ms.
AfterResult(ex, result) ==
  LET action == ex.actions[ex.idx] IN
  IF BreaksLoop(result, action)
  THEN [ex EXCEPT !.results = Append(ex.results, result), !.pc = "returned", !.ms = 0]
  ELSE [ex EXCEPT !.results = Append(ex.results, result), !.pc = "pause", !.ms = 300]

\* The documents and the messages of this specification.
EffectElements == {TextInput, ReadOnlyInput, TextArea, EditableDiv}

EffectActions ==
  { TypeInto(1, <<"h", "i">>), ClickOn(1), ClickOn(MissingId), Hover(1),
    WaitFor(NoOptions), WaitFor(Duration(250)), WaitFor(DurationMs(250)) }

\* An EXECUTE_ACTIONS message has arrived at a scanned page.
InitEffects ==
  /\ pendingIntent = NULL
  /\ isExecuting = FALSE
  /\ contextText = "hostname"
  /\ runs = [s \in 1..MaxRuns |-> NoRun]
  /\ timers = <<>>
  /\ dropped = 0
  /\ ctxPending = FALSE
  /\ page = [restricted |-> FALSE, cs |-> TRUE, loading |-> FALSE, navIntent |-> NULL,
             activeElement |-> 0, statusBar |-> FALSE, hideTimer |-> FALSE]
  /\ \E d \in [1..NumElems -> EffectElements] :
       doc = [i \in 1..NumElems |-> [d[i] EXCEPT !.attr = i]]
  /\ \E actions \in SeqsUpTo(EffectActions, MaxEffects) :
       exec = [actions |-> actions, idx |-> 0, results |-> <<>>, pc |-> "pause",
               ms |-> 0]
  /\ snapshot = <<>>
  /\ analysis = NoAnalysis
  /\ responses = <<>>
  /\ restores = <<>>
  /\ suspended = NoTask

\* The for loop of executeActions goes on (at the start, or after the 300 ms
\* of line 257): it returns, lines 260-261 and 360-362, or calls
\* executeAction for the next action, which runs to its first await.
EffectBegin ==
  /\ exec.pc = "pause"
  /\ IF exec.idx = Len(exec.actions)
     THEN /\ exec' = [exec EXCEPT !.pc = "returned", !.ms = 0]
          /\ page' = [page EXCEPT !.statusBar = TRUE, !.hideTimer = TRUE]
          /\ responses' = Append(responses, [success |-> TRUE, results |-> exec.results])
     ELSE LET ex == [exec EXCEPT !.idx = exec.idx + 1]
              begun == ActionBegins(ex.actions[ex.idx], doc)
              next == IF begun.pc = "done" THEN AfterResult(ex, begun.result)
                      ELSE [ex EXCEPT !.pc = "sleeping", !.ms = begun.ms]
          IN /\ exec' = next
             /\ page' = [page EXCEPT
                           !.statusBar = page.statusBar \/ begun.shown \/ exec.idx = 0,
                           !.hideTimer = page.hideTimer \/ next.pc = "returned"]
             /\ responses' = IF next.pc = "returned"
                             THEN Append(responses, [success |-> TRUE, results |-> next.results])
                             ELSE responses
  /\ UNCHANGED <<pendingIntent, isExecuting, contextText, runs, timers, dropped,
                 doc, ctxPending, snapshot, analysis, restores>>
  /\ UNCHANGED suspended

\* The sleep inside executeAction is over: the action does its work and
\* returns its result.
EffectEnd ==
  /\ exec.pc = "sleeping"
  /\ \E thrown \in BOOLEAN :
       LET done == ActionEnds(exec.actions[exec.idx], doc, page.activeElement,
                              restores, thrown)
           next == AfterResult(exec, done.result)
       IN /\ thrown => exec.actions[exec.idx].type = "TYPE"
          /\ doc' = done.doc
          /\ restores' = done.restores
          /\ exec' = next
          /\ page' = [page EXCEPT !.activeElement = done.activeElement,
                                  !.hideTimer = page.hideTimer \/ next.pc = "returned"]
          /\ responses' = IF next.pc = "returned"
                          THEN Append(responses, [success |-> TRUE, results |-> next.results])
                          ELSE responses
  /\ UNCHANGED <<pendingIntent, isExecuting, contextText, runs, timers, dropped,
                 ctxPending, snapshot, analysis>>
  /\ UNCHANGED suspended

\* The timer of highlightElement fires, lines 279-282; timers of equal delay
\* fire in the order they were set.
RestoreFire ==
  /\ restores # <<>>
  /\ LET timer == Head(restores) IN
       doc' = [doc EXCEPT ![timer.element].style =
                            [outline |-> timer.originalOutline,
                             transition |-> timer.originalTransition]]
  /\ restores' = Tail(restores)
  /\ UNCHANGED <<pendingIntent, isExecuting, contextText, runs, timers, dropped,
                 page, exec, ctxPending, snapshot, analysis, responses>>
  /\ UNCHANGED suspended

\* hideAgentStatus, lines 340-347, two seconds after executeActions returned.
HideAgentStatus ==
  /\ page.hideTimer
  /\ page' = [page EXCEPT !.statusBar = FALSE, !.hideTimer = FALSE]
  /\ UNCHANGED <<pendingIntent, isExecuting, contextText, runs, timers, dropped,
                 doc, exec, ctxPending, snapshot, analysis, responses, restores>>
  /\ UNCHANGED suspended

NextEffects ==
  \/ EffectBegin
  \/ EffectEnd
  \/ RestoreFire
  \/ HideAgentStatus

SpecEffects == InitEffects /\ [][NextEffects]_vars

\* C26: whenever a TYPE action on an existing input or textarea reports
\* success, the value of the element is then the value of the action,
\* whether execCommand inserted the text, inserted nothing or threw.
C26_TypedValue ==
  [][(/\ exec.pc = "sleeping"
      /\ exec'.pc # "sleeping"
      /\ exec.actions[exec.idx].type = "TYPE"
      /\ exec'.results[exec.idx].success
      /\ doc[querySelector(doc, exec.actions[exec.idx].targetId)].tag
           \in {"INPUT", "TEXTAREA"})
       => doc'[querySelector(doc, exec.actions[exec.idx].targetId)].value
            = exec.actions[exec.idx].value]_vars

\* C27: once every restore timer has fired, the outline and the transition
\* of every element are the ones the page gave it, however many pulses the
\* element had and however they overlapped.
C27_PageStyle(e) ==
  IF e.tag = "TEXTAREA" THEN [outline |-> "1px solid red", transition |-> "all 1s"]
  ELSE [outline |-> "", transition |-> ""]

C27_StyleRestored ==
  restores = <<>> => \A i \in 1..Len(doc) : doc[i].style = C27_PageStyle(doc[i])

\* C29: a WAIT action pauses for options.durationMs milliseconds, for 1000
\* when the field is absent, reports success with that duration and leaves
\* the elements of the document as they are.
C29_Pause(options) ==
  IF "durationMs" \in options.fields THEN options.durationMs ELSE 1000

C29_WaitPauses ==
  /\ []((exec.pc = "sleeping" /\ exec.actions[exec.idx].type = "WAIT")
          => exec.ms = C29_Pause(exec.actions[exec.idx].options))
  /\ [][(/\ exec.pc = "sleeping"
         /\ exec'.pc # "sleeping"
         /\ exec.actions[exec.idx].type = "WAIT")
          => /\ exec'.results[exec.idx].success
             /\ exec'.results[exec.idx].duration = C29_Pause(exec.actions[exec.idx].options)
             /\ doc' = doc]_vars

\* ------------------------------------------------------- dictation to the page
\* content_script.js 366-398.  \w of the regular expressions.
WordChars ==
  {LowerCase[k] : k \in 1..Len(LowerCase)} \cup {UpperCase[k] : k \in 1..Len(UpperCase)}
    \cup {"0", "1", "2", "3", "4", "5", "6", "7", "8", "9", "_"}

\* /\bword\b/i matches at position p of str (word is given in lower case and
\* begins and ends with a letter).
MatchesWord(str, p, word) ==
  /\ p + Len(word) - 1 <= Len(str)
  /\ toLowerCase(SubSeq(str, p, p + Len(word) - 1)) = word
  /\ p = 1 \/ str[p - 1] \notin WordChars
  /\ p + Len(word) > Len(str) \/ str[p + Len(word)] \notin WordChars

\* text.replace(/\bword\b/gi, with), from position p on.
RECURSIVE ReplaceFrom(_, _, _, _, _)
ReplaceFrom(str, p, word, with, out) ==
  IF p > Len(str) THEN out
  ELSE IF MatchesWord(str, p, word)
  THEN ReplaceFrom(str, p + Len(word), word, with, out \o with)
  ELSE ReplaceFrom(str, p + 1, word, with, Append(out, str[p]))

replace(str, word, with) == ReplaceFrom(str, 1, word, with, <<>>)

\* lines 374-380: the punctuation commands, in the order of the code.
Punctuate(text) ==
  LET t1 == replace(text, <<"p", "e", "r", "i", "o", "d">>, <<".">>)
      t2 == replace(t1, <<"c", "o", "m", "m", "a">>, <<",">>)
      t3 == replace(t2, <<"q", "u", "e", "s", "t", "i", "o", "n", " ", "m", "a", "r", "k">>, <<"?">>)
      t4 == replace(t3, <<"e", "x", "c", "l", "a", "m", "a", "t", "i", "o", "n", " ", "m", "a", "r", "k">>, <<"!">>)
      t5 == replace(t4, <<"n", "e", "w", " ", "l", "i", "n", "e">>, <<"\n">>)
  IN replace(t5, <<"n", "e", "w", "l", "i", "n", "e">>, <<"\n">>)

\* line 369-371: the test on document.activeElement (0: the body, nothing
\* has the focus).
DictationTarget(d, active) ==
  /\ active # 0
  /\ d[active].tag \in {"INPUT", "TEXTAREA"} \/ d[active].isContentEditable

\* lines 382-392: the insertion.  Where selectionStart does not apply its
\* getter gives null and its setter throws an InvalidStateError: the value
\* is written, the listener is left before sendResponse.
Dictated(d, active, text) ==
  IF d[active].isContentEditable
  THEN [doc |-> execCommand(d, active, text), threw |-> FALSE]
  ELSE LET start == IF d[active].selection THEN d[active].selectionStart ELSE 0
           end == IF d[active].selection THEN d[active].selectionEnd ELSE 0
           before == SubSeq(d[active].value, 1, start)
           after == SubSeq(d[active].value, end + 1, Len(d[active].value))
           written == [d EXCEPT ![active].value = before \o text \o after]
       IN IF ~d[active].selection THEN [doc |-> written, threw |-> TRUE]
          ELSE [doc |-> [written EXCEPT ![active].selectionStart = start + Len(text),
                                        ![active].selectionEnd = start + Len(text)],
                threw |-> FALSE]

DictateElements ==
  {TextInput, ReadOnlyInput, CheckBox, TextArea, EditableDiv, Button}

DictateTexts ==
  { <<"h", "i">>, <<"h", "i", " ", "p", "e", "r", "i", "o", "d">>,
    <<"P", "e", "r", "i", "o", "d">>, <<"p", "e", "r", "i", "o", "d", "i", "c">>,
    <<"n", "e", "w", " ", "l", "i", "n", "e">> }

\* A DICTATE_TO_PAGE message has arrived; any element, or none, has the focus.
InitDictate ==
  /\ pendingIntent = NULL
  /\ isExecuting = FALSE
  /\ contextText = "hostname"
  /\ runs = [s \in 1..MaxRuns |-> NoRun]
  /\ timers = <<>>
  /\ dropped = 0
  /\ ctxPending = FALSE
  /\ \E active \in 0..NumElems :
       page = [restricted |-> FALSE, cs |-> TRUE, loading |-> FALSE, navIntent |-> NULL,
               activeElement |-> active, statusBar |-> FALSE, hideTimer |-> FALSE]
  /\ \E d \in [1..NumElems -> DictateElements], caret \in BOOLEAN :
       doc = [i \in 1..NumElems |->
                [d[i] EXCEPT !.selectionStart = IF caret THEN 0 ELSE @]]
  /\ \E text \in DictateTexts :
       exec = [pc |-> "message", type |-> "DICTATE_TO_PAGE", text |-> text]
  /\ snapshot = <<>>
  /\ analysis = NoAnalysis
  /\ responses = <<>>
  /\ restores = <<>>
  /\ suspended = NoTask

\* The listener handles the message, lines 366-398.
DictateToPage ==
  /\ exec.pc = "message"
  /\ IF DictationTarget(doc, page.activeElement)
     THEN LET text == Punctuate(exec.text)
              done == Dictated(doc, page.activeElement, text)
          IN /\ doc' = done.doc
             /\ exec' = [exec EXCEPT !.pc = IF done.threw THEN "threw" ELSE "handled"]
             /\ responses' = IF done.threw THEN responses
                             ELSE Append(responses, [success |-> TRUE, inserted |-> text,
                                                     error |-> ""])
     ELSE /\ doc' = doc
          /\ exec' = [exec EXCEPT !.pc = "handled"]
          /\ responses' = Append(responses, [success |-> FALSE, inserted |-> <<>>,
                                             error |-> "No text field focused on page"])
  /\ UNCHANGED <<pendingIntent, isExecuting, contextText, runs, timers, dropped,
                 page, ctxPending, snapshot, analysis, restores>>
  /\ UNCHANGED suspended

NextDictate == DictateToPage

SpecDictate == InitDictate /\ [][NextDictate]_vars

\* C28: DICTATE_TO_PAGE reports success, and inserts text, only when the
\* focused element is a text input, a textarea or an editable region; with
\* any other element in focus (a checkbox, a button) or none it reports
\* failure and changes the value of no element.
C28_TextField(d, active) ==
  /\ active # 0
  /\ \/ d[active].tag = "INPUT" /\ d[active].type = "text"
     \/ d[active].tag = "TEXTAREA"
     \/ d[active].isContentEditable

C28_OnlyTextFields ==
  [][exec.pc = "message" /\ exec'.pc # "message" =>
       IF C28_TextField(doc, page.activeElement)
       THEN /\ Len(responses') = 1
            /\ responses'[1].success
            /\ doc' # doc
       ELSE /\ Len(responses') = 1
            /\ ~responses'[1].success
            /\ \A i \in 1..Len(doc) :
                 doc'[i].value = doc[i].value /\ doc'[i].innerText = doc[i].innerText]_vars

\* ------------------------------------------------ the controller, with progress
\* Every await of executeActions returns or throws in the end: the scrape,
\* the backend call, the readiness check, chrome.tabs.update and the answer
\* to each EXECUTE_ACTIONS message.  Nothing is assumed of the user, the tabs
\* and the timers.
Progress ==
  \A s \in 1..MaxRuns :
    /\ WF_vars(GetPrunedDOM(s))
    /\ WF_vars(Analyze(s))
    /\ WF_vars(Prepare(s))
    /\ WF_vars(NavigateDone(s))
    /\ WF_vars(ActionResponse(s))

\* The controller with one intent asked for again and again and the loads of
\* the active tab.
NextProgress ==
  \/ UserInput("I")
  \/ ActiveTabComplete
  \/ TimerFire
  \/ \E s \in 1..MaxRuns : GetPrunedDOM(s)
  \/ \E s \in 1..MaxRuns : Analyze(s)
  \/ \E s \in 1..MaxRuns : Prepare(s)
  \/ \E s \in 1..MaxRuns : NavigateDone(s)
  \/ \E s \in 1..MaxRuns : ActionResponse(s)

SpecProgress == Init /\ [][NextProgress]_vars /\ Progress

\* C30: every run of executeActions ends, and when it ends isExecuting is
\* false, whatever the plan is and whichever step fails; no run stays in
\* progress for ever.
C30_RunEnds ==
  \A s \in 1..MaxRuns :
    (runs[s].pc # "none") ~> (runs[s].pc = "none" /\ ~isExecuting)

\* All runs have ended, the last one on an error, and nothing is executing.
C30_Witness ==
  /\ contextText = "Agent Error"
  /\ ~isExecuting
  /\ timers = <<>>
  /\ \A s \in 1..MaxRuns : runs[s].pc = "none"

\* C31: for one OPEN_URL navigation at most one resumption pass is started,
\* however many load-complete signals arrive while pendingIntent is set: the
\* task an OPEN_URL has suspended is never resumed a second time.
C31_OneResumption == suspended.passes <= 1


\* C32: executeActions is never entered with a null intent, and so every
\* call that has come to callBackend('/api/analyze') sends a non-null intent,
\* also when pendingIntent was cleared between a load-complete signal and
\* the firing of its timer.
C32_IntentNotNull ==
  \A s \in Slots : Active(runs[s]) => runs[s].intent # NULL


\* C33: within one run the actions of the plan other than OPEN_URL go to the
\* page one per EXECUTE_ACTIONS message and in plan order: the first message
\* carries the first action of the plan, the message after the one for
\* action i carries action i+1, and it is sent in the step in which the
\* response (or the transport error) for action i arrives.
C33_OneAtATimeInOrder ==
  [][\A s \in Slots :
       /\ Dispatches(s) =>
            /\ ~IsOpenUrl(runs'[s].plan[runs'[s].idx])
            /\ IF runs[s].pc = "dispatch"
               THEN /\ runs'[s].idx = runs[s].idx + 1
                    /\ runs'[s].plan = runs[s].plan
               ELSE /\ runs[s].pc = "prepare"
                    /\ runs'[s].idx = 1
                    /\ runs'[s].plan = runs[s].plan
       /\ (runs[s].pc = "dispatch" /\ runs'[s].pc = "dispatch")
            => runs'[s].idx \in {runs[s].idx, runs[s].idx + 1}]_vars

\* The second action of a plan is with the page, the first one answered.
C33_Witness ==
  \E s \in Slots : /\ runs[s].pc = "dispatch"
                   /\ runs[s].idx = 2
                   /\ ~IsOpenUrl(runs[s].plan[1])


\* C34: the page-side executeActions attempts no action placed after an
\* OPEN_URL of its list: a result of an OPEN_URL is the last result.
C34_EndsWithOpenUrl ==
  \A k \in 1..Len(exec.results) :
    exec.actions[k].type = "OPEN_URL" => k = Len(exec.results)


\* --------------------------------------------- the fallback rules together
\* generateDemoActions on intents that fire several rules: the phrases of
\* ReversedIntent stand in the reverse of the order of the rules.
ReversedIntent == <<"s", "c", "r", "o", "l", "l", " ", "s", "e", "a", "r", "c", "h", " ", "f", "o", "r", " ", "x", " ", "l", "o", "g", "i", "n", " ", "t", "y", "p", "e", " ", "a", " ", "i", "n", " ", "b", " ", "c", "l", "i", "c", "k", " ", "s", "u", "b", "m", "i", "t">>
GoIntent == <<"g", "o">>

RuleIntents == ResolveIntents \cup {ReversedIntent, GoIntent}

\* The service fails, answers without an array, or answers with one: alone,
\* behind some text, before some text, before a text with brackets in it.
RuleServices ==
  {[throws |-> TRUE, response |-> <<>>],
   [throws |-> FALSE, response |-> <<"x">>],
   [throws |-> FALSE, response |-> <<"[", "{}", "]">>],
   [throws |-> FALSE, response |-> <<"x", "[", "{}", ",", "{}", "]">>],
   [throws |-> FALSE, response |-> <<"[", "{}", "]", "x">>],
   [throws |-> FALSE, response |-> <<"[", "{}", "]", "x", "[", "x", "]">>]}

InitRules ==
  /\ OtherVarsIdle
  /\ \E intent \in RuleIntents, elements \in ListsUpTo(MaxRecords),
        openAIKey \in BOOLEAN :
       \E service \in (IF openAIKey THEN RuleServices ELSE {NoService}) :
         analysis = [pc |-> "request", intent |-> intent, elements |-> elements,
                     openAIKey |-> openAIKey, service |-> service,
                     status |-> 0, actions |-> <<>>]

SpecRules == InitRules /\ [][NextResolve]_vars


\* The plan of the response is the fallback plan: no key, a failing service
\* or a reply without an array.
FallbackPlanned ==
  /\ analysis.pc = "responded"
  /\ analysis.status = 200
  /\ \/ ~analysis.openAIKey
     \/ analysis.service.throws
     \/ jsonMatch(analysis.service.response) = <<>>

\* C35: the rules in their fixed order, 1 the click rule, 2 the type rule,
\* 3 the login rule, 4 and 5 the search rule with its TYPE and its CLICK,
\* 6 the scroll rule: what rule k emits for the lowercase intent.
C35_Match(k, text, elements) ==
  CASE k = 1 -> findBestMatch(elements, clickMatch(text).target, ClickTypes)
    [] k = 2 -> findBestMatch(elements, typeMatch(text).target, TypeTypes)
    [] k = 3 -> findBestMatch(elements, <<"l", "o", "g", "i", "n", " ", "s", "i", "g", "n", " ", "i", "n", " ", "s", "u", "b", "m", "i", "t">>, LoginTypes)
    [] k = 4 -> findBestMatch(elements, <<"s", "e", "a", "r", "c", "h", " ", "q", "u", "e", "r", "y">>, SearchInputTypes)
    [] k = 5 -> findBestMatch(elements, <<"s", "e", "a", "r", "c", "h", " ", "s", "u", "b", "m", "i", "t", " ", "g", "o">>, SearchButtonTypes)
    [] k = 6 -> NoElement

C35_Fires(k, text) ==
  CASE k = 1 -> clickMatch(text).matched
    [] k = 2 -> typeMatch(text).matched
    [] k = 3 -> includes(text, <<"l", "o", "g", "i", "n">>) \/ includes(text, <<"s", "i", "g", "n", " ", "i", "n">>)
    [] k \in {4, 5} -> searchMatch(text).matched
    [] k = 6 -> includes(text, <<"s", "c", "r", "o", "l", "l">>)

C35_Emits(k, text, elements) ==
  LET element == C35_Match(k, text, elements) IN
  IF ~C35_Fires(k, text) THEN <<>>
  ELSE IF k = 6
  THEN <<PlanScroll(IF includes(text, <<"u", "p">>) THEN "up" ELSE "down")>>
  ELSE IF element = NoElement THEN <<>>
  ELSE IF k \in {1, 3, 5} THEN <<PlanClick(element)>>
  ELSE IF k = 2 THEN <<PlanType(element, typeMatch(text).value)>>
  ELSE <<PlanType(element, searchMatch(text).value)>>

RECURSIVE C35_RulesFrom(_, _, _)
C35_RulesFrom(k, text, elements) ==
  IF k > 6 THEN <<>>
  ELSE C35_Emits(k, text, elements) \o C35_RulesFrom(k + 1, text, elements)

\* C35 as stated: the plan lists what the rules emit in the order of the
\* rules, and it holds the last-resort CLICK on the best match of the whole
\* intent if and only if no rule has emitted an action.
C35_LastResortIffNone ==
  FallbackPlanned =>
    LET text == toLowerCase(analysis.intent)
        ruled == C35_RulesFrom(1, text, analysis.elements)
        anyMatch == findBestMatch(analysis.elements, text, {})
    IN IF ruled # <<>> THEN analysis.actions = ruled
       ELSE /\ anyMatch # NoElement
            /\ analysis.actions = <<PlanClick(anyMatch)>>

\* C35 amended: the plan lists what the rules emit in the order of the
\* rules, whatever the order of the phrases in the intent; when no rule has
\* emitted an action the plan is the last-resort CLICK on the best match of
\* the whole intent if some enabled element matches it, and empty if none
\* does.
C35_RuleOrder ==
  FallbackPlanned =>
    LET text == toLowerCase(analysis.intent)
        ruled == C35_RulesFrom(1, text, analysis.elements)
        anyMatch == findBestMatch(analysis.elements, text, {})
    IN IF ruled # <<>> THEN analysis.actions = ruled
       ELSE IF anyMatch # NoElement THEN analysis.actions = <<PlanClick(anyMatch)>>
       ELSE analysis.actions = <<>>

\* The intent names scroll, search, login, type and click in this order;
\* the plan has the six actions in the order of the rules.
C35_Witness ==
  /\ FallbackPlanned
  /\ analysis.intent = ReversedIntent
  /\ Len(analysis.actions) = 6
  /\ analysis.actions[1] = PlanClick(SubmitButton)
  /\ analysis.actions[2].type = "TYPE"
  /\ analysis.actions[3] = PlanClick(SubmitButton)
  /\ analysis.actions[4].type = "TYPE" /\ analysis.actions[4].targetId = SearchInput.id
  /\ analysis.actions[5] = PlanClick(SubmitButton)
  /\ analysis.actions[6] = PlanScroll("down")


\* C36: a fallback plan has at most six actions, all of them CLICK, TYPE or
\* SCROLL, and the targetId of every CLICK and TYPE (a SCROLL has none) is
\* the id of an enabled element of the snapshot of the request.
C36_FallbackPlanShape ==
  FallbackPlanned =>
    /\ Len(analysis.actions) <= 6
    /\ \A k \in 1..Len(analysis.actions) :
         LET action == analysis.actions[k] IN
         /\ action.type \in {"CLICK", "TYPE", "SCROLL"}
         /\ action.type # "SCROLL" =>
              \E i \in 1..Len(analysis.elements) :
                /\ analysis.elements[i].id = action.targetId
                /\ ~analysis.elements[i].disabled

\* A plan of six actions on a snapshot of two enabled elements.
C36_Witness ==
  /\ FallbackPlanned
  /\ analysis.elements = <<SearchInput, SubmitButton>>
  /\ [k \in 1..Len(analysis.actions) |-> analysis.actions[k].type]
       = <<"CLICK", "TYPE", "CLICK", "TYPE", "CLICK", "SCROLL">>


\* C37: when the reply of the reasoning service holds a well-formed JSON
\* array (its "[" being the first of the reply) with further text behind
\* it, brackets or not, the plan of the response is that array.
C37_FirstArray ==
  (/\ analysis.pc = "responded"
   /\ analysis.status = 200
   /\ analysis.openAIKey
   /\ ~analysis.service.throws)
    => LET response == analysis.service.response IN
       \A i, j \in 1..Len(response) :
         (/\ i < j /\ j < Len(response)
          /\ response[i] = "[" /\ response[j] = "]"
          /\ \A k \in 1..(i - 1) : response[k] # "["
          /\ JSONparse(SubSeq(response, i, j)).ok)
           => analysis.actions = JSONparse(SubSeq(response, i, j)).items


\* C38: a run whose readiness check has failed sends no EXECUTE_ACTIONS
\* message: past the check it is found only at the chrome.tabs.update of the
\* first OPEN_URL of its plan, every action before it skipped; and the step
\* of a check on a restricted page ends the run without an error (no "Agent
\* Error", pendingIntent as it was) or takes it to that OPEN_URL.
C38_FirstOpenUrl(plan, j) ==
  /\ j \in 1..Len(plan)
  /\ IsOpenUrl(plan[j])
  /\ \A k \in 1..(j - 1) : ~IsOpenUrl(plan[k])

C38_SkipsButNavigates ==
  /\ [](\A s \in Slots :
          (~runs[s].isReady /\ runs[s].pc \notin {"none", "scrape", "resolve", "prepare"})
            => /\ runs[s].pc \in {"navigate", "navfail"}
               /\ C38_FirstOpenUrl(runs[s].plan, runs[s].idx))
  /\ [][\A s \in Slots :
          (runs[s].pc = "prepare" /\ page.restricted /\ runs'[s] # runs[s])
            => \/ /\ Ends(s)
                  /\ contextText' = contextText
                  /\ pendingIntent' = pendingIntent
               \/ /\ runs'[s].pc \in {"navigate", "navfail"}
                  /\ ~runs'[s].isReady
                  /\ runs'[s].plan = runs[s].plan]_vars

\* On a restricted page the CLICK in front of the OPEN_URL was skipped and
\* the navigation is under way.
C38_Witness ==
  \E s \in Slots : /\ runs[s].pc = "navigate"
                   /\ ~runs[s].isReady
                   /\ runs[s].idx = 2
                   /\ runs[s].plan[1].type = "CLICK"


\* C39: in every scan the counter restarts at zero (the first id handed
\* out is 1), the ids of the records increase strictly in DOM order, and an
\* element carries a data-agent-id after the scan only if the scan has
\* emitted it in the snapshot, under that id.
C39_IdsOnlyForEmitted ==
  [][Len(responses') > Len(responses) =>
       LET elements == responses'[Len(responses')].data IN
       /\ \A k, l \in 1..Len(elements) :
            k < l => elements[k].id < elements[l].id /\ elements[k].elem < elements[l].elem
       /\ \A i \in 1..Len(doc') :
            doc'[i].attr # 0 =>
              \E k \in 1..Len(elements) :
                elements[k].elem = i /\ elements[k].id = doc'[i].attr
       /\ Len(elements) > 0 => elements[1].id = 1]_vars


\* ------------------------------------------------ the types of the records
\* getElementType on every kind of candidate: the tags with the values of
\* their type property, under every role.
TypedTags ==
  { [tag |-> "a", type |-> "", typeOf |-> "string"],
    [tag |-> "button", type |-> "submit", typeOf |-> "string"],
    [tag |-> "input", type |-> "submit", typeOf |-> "string"],
    [tag |-> "input", type |-> "button", typeOf |-> "string"],
    [tag |-> "input", type |-> "checkbox", typeOf |-> "string"],
    [tag |-> "input", type |-> "radio", typeOf |-> "string"],
    [tag |-> "input", type |-> "text", typeOf |-> "string"],
    [tag |-> "select", type |-> "select-one", typeOf |-> "string"],
    [tag |-> "textarea", type |-> "textarea", typeOf |-> "string"],
    [tag |-> "div", type |-> "", typeOf |-> "undefined"],
    \* <form onclick> without and with a control named "type"
    [tag |-> "form", type |-> "", typeOf |-> "undefined"],
    [tag |-> "form", type |-> "", typeOf |-> "object"] }

Roles == {"", "button", "link", "textbox", "menuitem", "tab"}

TypedElements ==
  { StyledElement([tag |-> t.tag, type |-> t.type, typeOf |-> t.typeOf, role |-> role,
                   attributes |-> <<Str(<<"o", "k">>), Absent, Absent, Absent, Absent>>,
                   innerText |-> Str(<<>>), value |-> Absent],
                  [display |-> "block", visibility |-> "visible", opacity |-> "1"],
                  [left |-> 10, top |-> 10, width |-> 50, height |-> 20])
      : t \in TypedTags, role \in Roles }

\* A static document of visible, labeled candidates gets SCRAPE_DOM messages.
InitType ==
  /\ PageVarsIdle
  /\ snapshot = <<>>
  /\ doc \in [1..NumElems -> TypedElements]

SpecType == InitType /\ [][NextIndex]_vars

\* C40: the precedence table, first row that applies.
C40_Table(e) ==
  << <<e.tag = "a", "link">>,
     <<e.tag = "button" \/ e.role = "button", "button">>,
     <<e.tag = "input" /\ e.type \in {"submit", "button"}, "button">>,
     <<e.tag = "input" /\ e.type = "checkbox", "checkbox">>,
     <<e.tag = "input" /\ e.type = "radio", "radio">>,
     <<e.tag = "input", "input">>,
     <<e.tag = "select", "select">>,
     <<e.tag = "textarea", "textarea">>,
     <<e.role = "textbox", "input">>,
     <<e.role = "menuitem", "menuitem">>,
     <<e.role = "tab", "tab">>,
     <<TRUE, "interactive">> >>

C40_TypeOf(e) ==
  LET rows == C40_Table(e)
      first == CHOOSE k \in 1..Len(rows) : rows[k][1] /\ \A j \in 1..(k - 1) : ~rows[j][1]
  IN rows[first][2]

\* C40: getElementType gives a type for every candidate, the one of the
\* table: every scan of visible, labeled candidates is answered with a
\* record for each of them, carrying the type of the table.
C40_TotalByPrecedence ==
  [][/\ Len(responses') = Len(responses) + 1
     /\ LET elements == responses'[Len(responses')].data IN
        /\ Len(elements) = Len(doc)
        /\ \A k \in 1..Len(elements) : elements[k].type = C40_TypeOf(doc[k])]_vars

====
